---- MODULE Spec2Model ----
(***************************************************************************)
(* R-tree spatial index of lib/vector/rtree: the file-based search,        *)
(* insertion and deletion of indexf.c, the split engine of split.c, and    *)
(* the rectangle algebra, node operations and node store they call.        *)
(*                                                                         *)
(* Coordinates are integers in half units (the real coordinate 4.5 is 9),  *)
(* so that every comparison the code makes on RectReal values is exact.    *)
(* Arrays are 0-based functions, rectangles are boundary[] tuples read     *)
(* through index k+1 for the C index k.                                    *)
(***************************************************************************)
EXTENDS Integers, Sequences, FiniteSets, TLC

VARIABLES t, st, wl, nextId, live, pc, pre, res

vars == <<t, st, wl, nextId, live, pc, pre, res>>

----------------------------------------------------------------------------
(* Bounds of the model *)

\* number of entries the client inserts (ids 1..MaxId, in this order)
MaxId == 14

\* number of entries the client deletes
MaxDel == 1

\* the store fails after at most this many rewrites of a call
MaxFault == 2

----------------------------------------------------------------------------
(* Program constants *)

NUMDIMS == 2

MAXLEVEL == 20

\* number of branches removed by an R*-tree forced reinsertion
FORCECARD == 3

----------------------------------------------------------------------------
(* Rectangle algebra *)

Min(a, b) == IF a <= b THEN a ELSE b

Max(a, b) == IF a >= b THEN a ELSE b

RTreeNullRect == [k \in 1..(2 * NUMDIMS) |-> 0]

\* closed intervals on every axis: touching boundaries overlap
RTreeOverlap(r, s) ==
    \A k \in 1..NUMDIMS : r[k] <= s[k + NUMDIMS] /\ s[k] <= r[k + NUMDIMS]

RTreeCombineRect(r, s) ==
    [k \in 1..(2 * NUMDIMS) |->
        IF k <= NUMDIMS THEN Min(r[k], s[k]) ELSE Max(r[k], s[k])]

\* 1 when every boundary is equal, 0 otherwise
RTreeCompareRect(r, s) ==
    IF \A k \in 1..(2 * NUMDIMS) : r[k] = s[k] THEN 1 ELSE 0

RECURSIVE SumSq(_, _)
SumSq(r, k) ==
    IF k > NUMDIMS THEN 0
    ELSE (r[k + NUMDIMS] - r[k]) * (r[k + NUMDIMS] - r[k]) + SumSq(r, k + 1)

\* volume of the bounding sphere; for NUMDIMS = 2 it is pi/4 times the sum
\* of the squared extents, and only differences and comparisons are used
RTreeRectSphericalVolume(r) == SumSq(r, 1)

RECURSIVE ProdExt(_, _)
ProdExt(r, k) ==
    IF k > NUMDIMS THEN 1 ELSE (r[k + NUMDIMS] - r[k]) * ProdExt(r, k + 1)

RTreeRectVolume(r) == ProdExt(r, 1)

RECURSIVE SumExt(_, _)
SumExt(r, k) ==
    IF k > NUMDIMS THEN 0 ELSE (r[k + NUMDIMS] - r[k]) + SumExt(r, k + 1)

RTreeRectMargin(r) == SumExt(r, 1)

----------------------------------------------------------------------------
(* Nodes and branches *)

MAXKIDS(level, tr) == IF level > 0 THEN tr.nodecard ELSE tr.leafcard

MINFILL(level, tr) == IF level > 0 THEN tr.min_node_fill ELSE tr.min_leaf_fill

\* union RTree_Child is an integer: the id of a data rectangle in a leaf,
\* the position of the child node in an internal node
RTreeValidChildF(child) == child > -1

\* an internal slot is in use when its child is valid, a leaf slot when its
\* id is not zero
BranchInUse(level, child) ==
    IF level > 0 THEN RTreeValidChildF(child) ELSE child # 0

RTreeInitBranch(level) ==
    [rect |-> RTreeNullRect, child |-> IF level > 0 THEN -1 ELSE 0]

\* an empty node of the type (internal or leaf) of `level`
RTreeInitNode(tr, level) ==
    [level |-> -1, count |-> 0,
     branch |-> [i \in 0..(MAXKIDS(level, tr) - 1) |-> RTreeInitBranch(level)]]

\* number of branch slots of a node
NSlots(n) == Cardinality(DOMAIN n.branch)

RECURSIVE NodeCoverFrom(_, _, _, _)
NodeCoverFrom(n, i, first, acc) ==
    IF i >= NSlots(n) THEN acc
    ELSE IF BranchInUse(n.level, n.branch[i].child)
         THEN IF first THEN NodeCoverFrom(n, i + 1, FALSE, n.branch[i].rect)
              ELSE NodeCoverFrom(n, i + 1, FALSE,
                                 RTreeCombineRect(acc, n.branch[i].rect))
         ELSE NodeCoverFrom(n, i + 1, first, acc)

\* smallest rectangle that includes all rectangles in the branches of a node
RTreeNodeCover(n) == NodeCoverFrom(n, 0, TRUE, RTreeNullRect)

RECURSIVE FirstFreeSlot(_, _)
FirstFreeSlot(n, i) ==
    IF i >= NSlots(n) THEN -1
    ELSE IF ~BranchInUse(n.level, n.branch[i].child) THEN i
    ELSE FirstFreeSlot(n, i + 1)

\* RTreeAddBranch on a node that is not full: the branch is copied into the
\* first empty slot
AddBranchNoSplit(b, n) ==
    LET i == FirstFreeSlot(n, 0)
    IN  [n EXCEPT !.branch[i] = b, !.count = n.count + 1]

\* index of the highest slot in use, -1 for an empty node
RECURSIVE LastUsedSlot(_, _)
LastUsedSlot(n, i) ==
    IF i < 0 THEN -1
    ELSE IF BranchInUse(n.level, n.branch[i].child) THEN i
    ELSE LastUsedSlot(n, i - 1)

\* remove branch i; the last active branch moves into its slot
RTreeDisconnectBranch(n, i) ==
    LET l == LastUsedSlot(n, NSlots(n) - 1)
    IN  [n EXCEPT !.branch[i] = n.branch[l],
                  !.branch[l] = RTreeInitBranch(n.level),
                  !.count = n.count - 1]

\* Pick the branch that needs the least enlargement to include r; ties go
\* to the branch of smaller volume, then to the lower index.
RECURSIVE PickBranchFrom(_, _, _, _, _, _)
PickBranchFrom(r, n, i, best, bestArea, bestIncr) ==
    IF i >= NSlots(n) THEN best
    ELSE IF ~BranchInUse(n.level, n.branch[i].child)
         THEN PickBranchFrom(r, n, i + 1, best, bestArea, bestIncr)
    ELSE LET rr   == n.branch[i].rect
             area == RTreeRectSphericalVolume(rr)
             incr == RTreeRectSphericalVolume(RTreeCombineRect(r, rr)) - area
         IN  IF best = -1 \/ incr < bestIncr
                \/ (incr = bestIncr /\ area < bestArea)
             THEN PickBranchFrom(r, n, i + 1, i, area, incr)
             ELSE PickBranchFrom(r, n, i + 1, best, bestArea, bestIncr)

RTreePickBranch(r, n) == PickBranchFrom(r, n, 0, -1, 0, 0)

----------------------------------------------------------------------------
(* Split engine (split.c).  The file-scope buffers BranchBuf, BranchCount,  *)
(* CoverSplit, CoverSplitArea and Partitions[0] are passed as values.       *)

\* stands for the largest RectReal: larger than any margin, overlap or volume
DBL_MAX == 1000000000

\* the split strategy the library is built with: 0 quadratic, 1 R*-tree
METHOD(tr) == tr.method

RECURSIVE CoverOfBuf(_, _, _, _)
CoverOfBuf(buf, i, n, acc) ==
    IF i >= n THEN acc
    ELSE CoverOfBuf(buf, i + 1, n, RTreeCombineRect(acc, buf[i].rect))

\* Load branch buffer with branches from full node plus the extra branch;
\* the node is re-initialised.  assertsOk: every entry of n was in use.
RTreeGetBranches(n, b, tr) ==
    LET maxkids == MAXKIDS(n.level, tr)
        buf     == [i \in 0..maxkids |-> IF i < maxkids THEN n.branch[i] ELSE b]
        cover   == IF METHOD(tr) = 0
                   THEN CoverOfBuf(buf, 1, maxkids + 1, buf[0].rect)
                   ELSE RTreeNullRect
    IN  [BranchBuf      |-> buf,
         BranchCount    |-> maxkids + 1,
         CoverSplit     |-> cover,
         CoverSplitArea |-> IF METHOD(tr) = 0
                            THEN RTreeRectSphericalVolume(cover) ELSE 0,
         n              |-> RTreeInitNode(tr, n.level),
         assertsOk      |-> \A i \in 0..(maxkids - 1) :
                                BranchInUse(n.level, n.branch[i].child)]

\* Initialize a PartitionVars structure.  Kept beside the fields of the
\* structure, for the record: order lists <<i, group>> for every call of
\* RTreeClassify, steps the groups as they were before each step of the
\* quadratic assignment loop with the branch it chose, dists the
\* distributions the R*-tree method looked at, axis, side and cut the
\* distribution it used.
RTreeInitPVars(maxrects, minfill) ==
    [order     |-> <<>>,
     steps     |-> <<>>,
     dists     |-> <<>>,
     axis      |-> -1,
     side      |-> -1,
     cut       |-> -1,
     count     |-> [g \in 0..1 |-> 0],
     cover     |-> [g \in 0..1 |-> RTreeNullRect],
     area      |-> [g \in 0..1 |-> 0],
     total     |-> maxrects,
     minfill   |-> minfill,
     taken     |-> [i \in 0..(maxrects - 1) |-> FALSE],
     partition |-> [i \in 0..(maxrects - 1) |-> -1],
     assertsOk |-> TRUE]

\* Put a branch in one of the groups.
RTreeClassify(i, group, p, buf, tr) ==
    LET cov == IF p.count[group] = 0 THEN buf[i].rect
               ELSE RTreeCombineRect(buf[i].rect, p.cover[group])
        p1  == [p EXCEPT !.assertsOk = p.assertsOk /\ ~p.taken[i],
                         !.order = Append(p.order, <<i, group>>),
                         !.partition[i] = group,
                         !.taken[i] = TRUE]
        p2  == IF METHOD(tr) = 0
               THEN [p1 EXCEPT !.cover[group] = cov,
                               !.area[group] = RTreeRectSphericalVolume(cov)]
               ELSE p1
    IN  [p2 EXCEPT !.count[group] = p.count[group] + 1]

(* Toni Guttman's quadratic splitting method *)

\* the pair (i, j), i < j, scanned in row order, whose waste is the first
\* to exceed every earlier one
RECURSIVE PickSeedsFrom(_, _, _, _, _, _, _)
PickSeedsFrom(buf, total, i, j, worst, seed0, seed1) ==
    IF i >= total - 1 THEN <<seed0, seed1>>
    ELSE IF j >= total
         THEN PickSeedsFrom(buf, total, i + 1, i + 2, worst, seed0, seed1)
    ELSE LET one_rect == RTreeCombineRect(buf[i].rect, buf[j].rect)
             waste    == RTreeRectSphericalVolume(one_rect)
                         - RTreeRectSphericalVolume(buf[i].rect)
                         - RTreeRectSphericalVolume(buf[j].rect)
         IN  IF waste > worst
             THEN PickSeedsFrom(buf, total, i, j + 1, waste, i, j)
             ELSE PickSeedsFrom(buf, total, i, j + 1, worst, seed0, seed1)

\* Pick two rects from set to be the first elements of the two groups.
RTreePickSeeds(p, buf, CoverSplitArea, tr) ==
    LET seeds == PickSeedsFrom(buf, p.total, 0, 1, (0 - CoverSplitArea) - 1, 0, 0)
    IN  RTreeClassify(seeds[2], 1, RTreeClassify(seeds[1], 0, p, buf, tr), buf, tr)

\* one scan of the unclassified branches: <<chosen, betterGroup>>
RECURSIVE ChooseNext(_, _, _, _, _, _)
ChooseNext(p, buf, i, biggestDiff, chosen, betterGroup) ==
    IF i >= p.total THEN <<chosen, betterGroup>>
    ELSE IF p.taken[i]
         THEN ChooseNext(p, buf, i + 1, biggestDiff, chosen, betterGroup)
    ELSE LET r       == buf[i].rect
             growth0 == RTreeRectSphericalVolume(RTreeCombineRect(r, p.cover[0]))
                        - p.area[0]
             growth1 == RTreeRectSphericalVolume(RTreeCombineRect(r, p.cover[1]))
                        - p.area[1]
             d       == growth1 - growth0
             group   == IF d >= 0 THEN 0 ELSE 1
             diff    == IF d >= 0 THEN d ELSE 0 - d
         IN  IF diff > biggestDiff
             THEN ChooseNext(p, buf, i + 1, diff, i, group)
             ELSE IF diff = biggestDiff
                     /\ p.count[group] < p.count[betterGroup]
             THEN ChooseNext(p, buf, i + 1, biggestDiff, i, group)
             ELSE ChooseNext(p, buf, i + 1, biggestDiff, chosen, betterGroup)

\* the one-at-a-time assignment loop; chosen and betterGroup live across
\* iterations
RECURSIVE MethodZeroLoop(_, _, _, _, _)

\* one step of the loop: c is <<chosen, betterGroup>> as the scan left them
MethodZeroStep(p, buf, c, tr) ==
    MethodZeroLoop(
        RTreeClassify(c[1], c[2],
            [p EXCEPT !.steps =
                Append(p.steps,
                       [chosen |-> c[1], group |-> c[2],
                        count |-> <<p.count[0], p.count[1]>>,
                        cover |-> <<p.cover[0], p.cover[1]>>])],
            buf, tr),
        buf, c[1], c[2], tr)

MethodZeroLoop(p, buf, chosen, betterGroup, tr) ==
    IF p.count[0] + p.count[1] < p.total
       /\ p.count[0] < p.total - p.minfill
       /\ p.count[1] < p.total - p.minfill
    THEN MethodZeroStep(p, buf,
                        ChooseNext(p, buf, 0, -1, chosen, betterGroup), tr)
    ELSE p

RECURSIVE ClassifyRest(_, _, _, _, _)
ClassifyRest(p, buf, i, group, tr) ==
    IF i >= p.total THEN p
    ELSE IF ~p.taken[i]
         THEN ClassifyRest(RTreeClassify(i, group, p, buf, tr), buf, i + 1, group, tr)
         ELSE ClassifyRest(p, buf, i + 1, group, tr)

\* the assertions that close both methods: every branch is in a group and
\* each group has the minimum fill
PartitionChecked(p) ==
    [p EXCEPT !.assertsOk =
        p.assertsOk
        /\ p.count[0] + p.count[1] = p.total
        /\ p.count[0] >= p.minfill /\ p.count[1] >= p.minfill]

\* the remaining rects put in the group that is full
MethodZeroRest_FullGroup(p, buf, tr) ==
    IF p.count[0] + p.count[1] < p.total
    THEN ClassifyRest(p, buf, 0,
                      IF p.count[0] >= p.total - p.minfill THEN 0 ELSE 1, tr)
    ELSE p

\* "if one group too full, put remaining rects in the other"
MethodZeroRest(p, buf, tr) ==
    IF p.count[0] + p.count[1] < p.total
    THEN ClassifyRest(p, buf, 0,
                      IF p.count[0] >= p.total - p.minfill THEN 1 ELSE 0, tr)
    ELSE p

\* Method #0 for choosing a partition
RTreeMethodZero(buf, BranchCount, CoverSplitArea, minfill, tr) ==
    PartitionChecked(
        MethodZeroRest(
            MethodZeroLoop(RTreePickSeeds(RTreeInitPVars(BranchCount, minfill),
                                          buf, CoverSplitArea, tr),
                           buf, 0, 0, tr),
            buf, tr))

(* Norbert Beckmann's R*-tree splitting method *)

RTreeSwapBranches(buf, a, b) == [buf EXCEPT ![a] = buf[b], ![b] = buf[a]]

\* compare branches for given rectangle side: 1, 0 or -1
RTreeCompareBranches(a, b, side) ==
    IF a.rect[side + 1] > b.rect[side + 1] THEN 1
    ELSE IF a.rect[side + 1] < b.rect[side + 1] THEN -1
    ELSE 0

\* check if BranchBuf is sorted along given side
RECURSIVE RTreeBranchBufIsSorted(_, _, _, _)
RTreeBranchBufIsSorted(buf, first, last, side) ==
    IF first >= last THEN 1
    ELSE IF RTreeCompareBranches(buf[first], buf[first + 1], side) = 1 THEN 0
    ELSE RTreeBranchBufIsSorted(buf, first + 1, last, side)

\* the scan of RTreePartitionBranchBuf that moves the items not larger than
\* the pivot item (kept at `last`) to the front
RECURSIVE PartitionScan(_, _, _, _, _)
PartitionScan(buf, first, last, pivot, side) ==
    IF first >= last THEN [buf |-> buf, pivot |-> pivot]
    ELSE IF RTreeCompareBranches(buf[first], buf[last], side) # 1
         THEN PartitionScan(IF pivot # first
                            THEN RTreeSwapBranches(buf, pivot, first) ELSE buf,
                            first + 1, last, pivot + 1, side)
         ELSE PartitionScan(buf, first + 1, last, pivot, side)

\* partition BranchBuf for quicksort along given side
RTreePartitionBranchBuf(buf, first, last, side) ==
    IF last - first = 1
    THEN [buf   |-> IF RTreeCompareBranches(buf[first], buf[last], side) = 1
                    THEN RTreeSwapBranches(buf, first, last) ELSE buf,
          pivot |-> last]
    ELSE
    LET mid     == (first + last) \div 2
        fgt     == RTreeCompareBranches(buf[first], buf[mid], side) = 1
        larger  == IF fgt THEN first ELSE mid
        smaller == IF fgt THEN mid ELSE first
        pivot0  == IF RTreeCompareBranches(buf[larger], buf[last], side) = 1
                   THEN IF RTreeCompareBranches(buf[smaller], buf[last], side) = 1
                        THEN smaller ELSE last
                   ELSE larger
        buf1    == IF pivot0 # last
                   THEN RTreeSwapBranches(buf, pivot0, last) ELSE buf
        sc      == PartitionScan(buf1, first, last, first, side)
    IN  [buf   |-> IF sc.pivot # last
                   THEN RTreeSwapBranches(sc.buf, sc.pivot, last) ELSE sc.buf,
         pivot |-> sc.pivot]

\* the explicit stack of quicksort: a sequence of <<first, last>>, top last
RECURSIVE QuicksortLoop(_, _, _)
QuicksortLoop(buf, stack, side) ==
    IF stack = <<>> THEN buf
    ELSE LET top   == stack[Len(stack)]
             rest  == SubSeq(stack, 1, Len(stack) - 1)
             first == top[1]
             last  == top[2]
         IN  IF first < last /\ RTreeBranchBufIsSorted(buf, first, last, side) = 0
             THEN LET pt == RTreePartitionBranchBuf(buf, first, last, side)
                  IN  QuicksortLoop(pt.buf,
                                    rest \o << <<first, pt.pivot - 1>>,
                                               <<pt.pivot + 1, last>> >>,
                                    side)
             ELSE QuicksortLoop(buf, rest, side)

\* quicksort BranchBuf along given side
RTreeQuicksortBranchBuf(buf, BranchCount, side) ==
    QuicksortLoop(buf, << <<0, BranchCount - 1>> >>, side)

\* cover of BranchBuf[from .. to-1] combined into acc
RECURSIVE CombineRange(_, _, _, _)
CombineRange(buf, from, to, acc) ==
    IF from >= to THEN acc
    ELSE CombineRange(buf, from + 1, to, RTreeCombineRect(acc, buf[from].rect))

\* upperrect after the loop "for (j = 1; j < minfill1; j++)" and the
\* statement that follows it
RECURSIVE UpperRect(_, _, _, _, _)
UpperRect(buf, maxkids, j, minfill1, acc) ==
    IF j < minfill1
    THEN UpperRect(buf, maxkids, j + 1, minfill1,
                   RTreeCombineRect(acc, buf[maxkids - j].rect))
    ELSE RTreeCombineRect(acc, buf[maxkids - minfill1].rect)

\* overlap size of the two test rectangles: 0 as soon as one axis separates
\* them, the volume of the intersection otherwise
RECURSIVE OverlapFrom(_, _, _, _)
OverlapFrom(r1, r2, k, orect) ==
    IF k > NUMDIMS THEN RTreeRectVolume(orect)
    ELSE IF r1[k] > r2[k + NUMDIMS] \/ r1[k + NUMDIMS] < r2[k] THEN 0
    ELSE OverlapFrom(r1, r2, k + 1,
            [orect EXCEPT ![k] = IF r1[k] > r2[k] THEN r1[k] ELSE r2[k],
                          ![k + NUMDIMS] = IF r1[k + NUMDIMS] < r2[k + NUMDIMS]
                                           THEN r1[k + NUMDIMS]
                                           ELSE r2[k + NUMDIMS]])

\* the distributions j = minfill1 .. BranchCount - minfill - 1 of one sort
\* order (axis i, side s); v carries smallest_margin, best_axis, best_cut,
\* best_side, smallest_overlap and smallest_vol
RECURSIVE DistributionLoop(_, _, _, _, _, _, _, _, _)
DistributionLoop(buf, BranchCount, minfill, i, s, j, testrect1, upperrect, v) ==
    IF j >= BranchCount - minfill THEN v
    ELSE
    LET t1      == RTreeCombineRect(testrect1, buf[j].rect)
        t2      == CombineRange(buf, j + 1, BranchCount - minfill, upperrect)
        margin  == RTreeRectMargin(t1) + RTreeRectMargin(t2)
        v0      == [v EXCEPT !.dists =
                       Append(v.dists,
                              [axis |-> i, side |-> s, cut |-> j,
                               group0 |-> t1, group1 |-> t2])]
        v1      == IF margin <= v0.smallest_margin
                   THEN [v0 EXCEPT !.smallest_margin = margin, !.best_axis = i]
                   ELSE v0
        overlap == OverlapFrom(t1, t2, 1, RTreeNullRect)
        vol     == RTreeRectVolume(t1) + RTreeRectVolume(t2)
        v2      == IF overlap <= v1.smallest_overlap
                   THEN [v1 EXCEPT !.smallest_overlap = overlap,
                                   !.smallest_vol = vol,
                                   !.best_cut[i] = j,
                                   !.best_side[i] = s]
                   ELSE IF overlap = v1.smallest_overlap /\ vol <= v1.smallest_vol
                   THEN [v1 EXCEPT !.smallest_vol = vol,
                                   !.best_cut[i] = j,
                                   !.best_side[i] = s]
                   ELSE v1
    IN  DistributionLoop(buf, BranchCount, minfill, i, s, j + 1, t1, upperrect, v2)

\* the loops over the axes i and the sides s (lower bounds, then upper)
RECURSIVE AxisLoop(_, _, _, _, _, _, _)

\* the distributions of the buffer sorted along one side of one axis
AxisSide(sorted, BranchCount, minfill, maxkids, i, s, v) ==
    AxisLoop(sorted, BranchCount, minfill, maxkids, i, s + 1,
             DistributionLoop(sorted, BranchCount, minfill, i, s, minfill - 1,
                 CombineRange(sorted, 1, minfill - 1, sorted[0].rect),
                 UpperRect(sorted, maxkids, 1, minfill - 1,
                           sorted[maxkids].rect),
                 v))

AxisLoop(buf, BranchCount, minfill, maxkids, i, s, v) ==
    IF i >= NUMDIMS THEN [buf |-> buf, v |-> v]
    ELSE IF s >= 2
         THEN AxisLoop(buf, BranchCount, minfill, maxkids, i + 1, 0, v)
    ELSE AxisSide(RTreeQuicksortBranchBuf(buf, BranchCount, i + s * NUMDIMS),
                  BranchCount, minfill, maxkids, i, s,
                  IF s = 0
                  THEN [v EXCEPT !.best_cut[i] = 0, !.best_side[i] = 0,
                                 !.smallest_overlap = DBL_MAX,
                                 !.smallest_vol = DBL_MAX]
                  ELSE v)

RECURSIVE ClassifyRange(_, _, _, _, _, _)
ClassifyRange(p, buf, from, to, group, tr) ==
    IF from >= to THEN p
    ELSE ClassifyRange(RTreeClassify(from, group, p, buf, tr), buf,
                       from + 1, to, group, tr)

\* "Use best distribution to classify branches": the first cut branches of
\* the buffer go to group 0, the others to group 1
MethodOneClassify(v, buf, cut, BranchCount, minfill, tr) ==
    [p   |-> PartitionChecked(
                ClassifyRange(
                    ClassifyRange(
                        [RTreeInitPVars(BranchCount, minfill) EXCEPT
                            !.dists = v.dists,
                            !.axis = v.best_axis,
                            !.side = v.best_side[v.best_axis],
                            !.cut = cut],
                        buf, 0, cut, 0, tr),
                    buf, cut, BranchCount, 1, tr)),
     buf |-> buf,
     best_axis |-> v.best_axis,
     best_side |-> v.best_side[v.best_axis],
     best_cut  |-> cut]

\* a classification that leaves out "best_cut[best_axis]++"
MethodOneSorted_CutNotAfter(al, BranchCount, minfill, tr) ==
    LET v    == al.v
        axis == NUMDIMS - 1
        side == 1
    IN  MethodOneClassify(
            v,
            IF v.best_axis # axis \/ v.best_side[v.best_axis] # side
            THEN RTreeQuicksortBranchBuf(al.buf, BranchCount,
                     v.best_axis + v.best_side[v.best_axis] * NUMDIMS)
            ELSE al.buf,
            v.best_cut[v.best_axis],
            BranchCount, minfill, tr)

\* the buffer is sorted again unless the last sort (last axis, upper
\* bounds) is the best one
MethodOneSorted(al, BranchCount, minfill, tr) ==
    LET v    == al.v
        axis == NUMDIMS - 1
        side == 1
    IN  MethodOneClassify(
            v,
            IF v.best_axis # axis \/ v.best_side[v.best_axis] # side
            THEN RTreeQuicksortBranchBuf(al.buf, BranchCount,
                     v.best_axis + v.best_side[v.best_axis] * NUMDIMS)
            ELSE al.buf,
            v.best_cut[v.best_axis] + 1,
            BranchCount, minfill, tr)

\* Method #1 for choosing a partition: the partition and the re-sorted buffer
RTreeMethodOne(buf, BranchCount, minfill, maxkids, tr) ==
    MethodOneSorted(
        AxisLoop(buf, BranchCount, minfill, maxkids, 0, 0,
                 [smallest_margin  |-> 0,
                  best_axis        |-> 0,
                  best_cut         |-> [i \in 0..(NUMDIMS - 1) |-> 0],
                  best_side        |-> [i \in 0..(NUMDIMS - 1) |-> 0],
                  smallest_overlap |-> -1,
                  smallest_vol     |-> -1,
                  dists            |-> <<>>]),
        BranchCount, minfill, tr)

\* Copy branches from the buffer into two nodes according to the partition.
RECURSIVE RTreeLoadNodes(_, _, _, _, _)
RTreeLoadNodes(n, q, p, buf, i) ==
    IF i >= p.total THEN [n |-> n, q |-> q]
    ELSE IF p.partition[i] = 0
         THEN RTreeLoadNodes(AddBranchNoSplit(buf[i], n), q, p, buf, i + 1)
    ELSE IF p.partition[i] = 1
         THEN RTreeLoadNodes(n, AddBranchNoSplit(buf[i], q), p, buf, i + 1)
    ELSE RTreeLoadNodes(n, q, p, buf, i + 1)

\* the two nodes loaded from the buffer, with the closing assertion; for
\* the record, the buffer as RTreeGetBranches loaded it and as the
\* partition indexes it
SplitResult(gb, p, buf, ld) ==
    [n  |-> ld.n,
     nn |-> ld.q,
     p  |-> p,
     BranchBuf |-> gb.BranchBuf,
     sorted    |-> buf,
     assertsOk |-> gb.assertsOk /\ p.assertsOk
                   /\ (\A i \in 0..(p.total - 1) : p.partition[i] \in {0, 1})
                   /\ ld.n.count + ld.q.count = p.total]

\* "put branches from buffer into 2 nodes according to chosen partition"
SplitLoad(level, gb, nn, p, buf) ==
    SplitResult(gb, p, buf,
                RTreeLoadNodes([gb.n EXCEPT !.level = level],
                               [nn EXCEPT !.level = level], p, buf, 0))

\* the R* split hands back the partition and the buffer as it sorted it
SplitMethodOne(level, gb, nn, m1) == SplitLoad(level, gb, nn, m1.p, m1.buf)

\* "find partition"
SplitPartition(level, gb, nn, tr) ==
    IF METHOD(tr) = 1
    THEN SplitMethodOne(level, gb, nn,
             RTreeMethodOne(gb.BranchBuf, gb.BranchCount,
                            MINFILL(level, tr), MAXKIDS(level, tr), tr))
    ELSE SplitLoad(level, gb, nn,
             RTreeMethodZero(gb.BranchBuf, gb.BranchCount,
                             gb.CoverSplitArea, MINFILL(level, tr), tr),
             gb.BranchBuf)

\* Split a node: divides the node's branches and the extra one between the
\* old node (group 0) and the new node nn (group 1).
RTreeSplitNode(n, b, nn, tr) ==
    SplitPartition(n.level, RTreeGetBranches(n, b, tr), nn, tr)

----------------------------------------------------------------------------
(* Adding a branch to a node: plain add, R*-tree forced reinsertion, split *)

\* twice the squared distance of the centre of rectangle r to the centre
\* of rectangle c, summed over the axes (centres in half units)
RECURSIVE CenterDist(_, _, _)
CenterDist(r, c, k) ==
    IF k > NUMDIMS THEN 0
    ELSE LET delta == (c[k] + c[k + NUMDIMS]) - (r[k] + r[k + NUMDIMS])
         IN  delta * delta + CenterDist(r, c, k + 1)

\* insert index i into the sequence of indices ordered by ascending
\* distance, after the entries that are not farther
RECURSIVE InsertByDist(_, _, _)
InsertByDist(order, i, dist) ==
    IF order = <<>> THEN <<i>>
    ELSE IF dist[Head(order)] <= dist[i]
         THEN <<Head(order)>> \o InsertByDist(Tail(order), i, dist)
         ELSE <<i>> \o order

RECURSIVE SortByDist(_, _, _, _)
SortByDist(order, i, n, dist) ==
    IF i >= n THEN order
    ELSE SortByDist(InsertByDist(order, i, dist), i + 1, n, dist)

RECURSIVE AddClosest(_, _, _, _, _)
AddClosest(n, buf, order, i, upto) ==
    IF i > upto THEN n
    ELSE AddClosest(AddBranchNoSplit(buf[order[i]], n), buf, order, i + 1, upto)

RECURSIVE ListFarthest(_, _, _, _, _, _)
ListFarthest(ee, buf, order, i, maxkids, level) ==
    IF i >= FORCECARD THEN ee
    ELSE ListFarthest(<<[b |-> buf[order[maxkids + 1 - i]], level |-> level]>> \o ee,
                      buf, order, i + 1, maxkids, level)

\* R*-tree forced reinsertion: of the branches of the full node n and the
\* new branch b, the FORCECARD branches whose centres are farthest from the
\* centre of the node's cover (cover combined with b) go to the list ee,
\* farthest first, each put at the head; the others stay in the node,
\* closest first.
RTreeRemoveBranches(n, b, ee, cover, tr) ==
    LET maxkids == MAXKIDS(n.level, tr)
        new     == RTreeCombineRect(cover, b.rect)
        buf     == [i \in 0..maxkids |-> IF i < maxkids THEN n.branch[i] ELSE b]
        dist    == [i \in 0..maxkids |-> CenterDist(buf[i].rect, new, 1)]
        order   == SortByDist(<<>>, 0, maxkids + 1, dist)
        n0      == [RTreeInitNode(tr, n.level) EXCEPT !.level = n.level]
    IN  [n  |-> AddClosest(n0, buf, order, 1, maxkids + 1 - FORCECARD),
         ee |-> ListFarthest(ee, buf, order, 0, maxkids, n.level)]

\* the node was split: nn is the new node
AddBranchSplit(sp, ee, overflow) ==
    [result |-> 1, n |-> sp.n, nn |-> sp.nn, ee |-> ee,
     overflow |-> overflow, assertsOk |-> sp.assertsOk]

\* branches were removed from the node for forced reinsertion
AddBranchRemoved(rb, n, overflow) ==
    [result |-> 2, n |-> rb.n, nn |-> n, ee |-> rb.ee,
     overflow |-> [overflow EXCEPT ![n.level] = 0],
     assertsOk |-> TRUE]

\* Add a branch to a node.  result 0: added; 1: node split, nn is the new
\* node; 2: branches were removed for forced reinsertion.
RTreeAddBranch(b, n, ee, cover, overflow, tr) ==
    IF n.count < MAXKIDS(n.level, tr)
    THEN [result |-> 0, n |-> AddBranchNoSplit(b, n), nn |-> n, ee |-> ee,
          overflow |-> overflow, assertsOk |-> TRUE]
    ELSE IF n.level < tr.rootlevel /\ overflow[n.level] = 1
    THEN AddBranchRemoved(RTreeRemoveBranches(n, b, ee, cover, tr),
                          n, overflow)
    ELSE AddBranchSplit(RTreeSplitNode(n, b, RTreeInitNode(tr, n.level), tr),
                        ee, overflow)

----------------------------------------------------------------------------
(* Node store: nodes at positions 0, 1, 2, ...; released positions are     *)
(* kept on a stack and handed out again, last released first.  wlog lists  *)
(* the positions written by the operation in progress.  The store can be   *)
(* told to fail: fault is the number of rewrites of a node in place that   *)
(* succeed before one fails (-1: none fails), failed says that one did.  A *)
(* rewrite that fails leaves the node as it was; what it returns is not    *)
(* looked at by indexf.c.                                                  *)

RTreeGetNode(s, pos) == s.nodes[pos]

\* write a node at a position, known or new (the end of the file)
RTreeWriteNode(s, n, pos) ==
    LET len == Cardinality(DOMAIN s.nodes)
    IN  [s EXCEPT !.nodes = IF pos < len THEN [s.nodes EXCEPT ![pos] = n]
                            ELSE [q \in 0..pos |-> IF q = pos THEN n
                                                   ELSE s.nodes[q]],
                  !.wlog = Append(s.wlog, pos)]

\* the store after a rewrite in place that failed
RewriteFailed(s) == [s EXCEPT !.fault = -1, !.failed = TRUE]

\* one rewrite fewer to go before the one that fails
RewriteDone(s) ==
    [s EXCEPT !.fault = IF s.fault > 0 THEN s.fault - 1 ELSE s.fault]

\* rewrite a node at its position
RTreePutNode(s, n, pos) ==
    IF s.fault = 0 THEN RewriteFailed(s)
    ELSE RewriteDone(RTreeWriteNode(s, n, pos))

\* rewrite the rectangle of branch b of the node at nodepos
RTreeUpdateRect(s, r, nodepos, b) ==
    IF s.fault = 0 THEN RewriteFailed(s)
    ELSE RewriteDone([s EXCEPT !.nodes[nodepos].branch[b].rect = r,
                               !.wlog = Append(s.wlog, nodepos)])

\* position for a new node: a released one if there is any, else the end
RTreeGetNodePos(s) ==
    IF s.free # <<>>
    THEN [pos |-> s.free[Len(s.free)],
          s   |-> [s EXCEPT !.free = SubSeq(s.free, 1, Len(s.free) - 1)]]
    ELSE [pos |-> Cardinality(DOMAIN s.nodes), s |-> s]

\* release the position of a node that left the tree
RTreeAddNodePos(s, pos) == [s EXCEPT !.free = Append(s.free, pos)]

\* the positions of the nodes that can be reached from the node at pos as
\* the store has them; a child is entered if its level is below its
\* parent's
RECURSIVE Reachable(_, _)
Reachable(s, pos) ==
    {pos} \cup
    IF pos \in DOMAIN s.nodes /\ s.nodes[pos].level > 0
    THEN UNION { IF /\ s.nodes[pos].branch[i].child \in DOMAIN s.nodes
                    /\ s.nodes[s.nodes[pos].branch[i].child].level
                          < s.nodes[pos].level
                 THEN Reachable(s, s.nodes[pos].branch[i].child)
                 ELSE {s.nodes[pos].branch[i].child} :
                 i \in {j \in DOMAIN s.nodes[pos].branch :
                           RTreeValidChildF(s.nodes[pos].branch[j].child)} }
    ELSE {}

----------------------------------------------------------------------------
(* indexf.c.  The stack t->fs is a sequence of frames [pos, sn, branch_id]; *)
(* the frame of C index k is s[k + 1], frames above top are dropped.        *)

Frame(pos, sn, branch_id) == [pos |-> pos, sn |-> sn, branch_id |-> branch_id]

\* a search that follows a branch only when its rectangle contains the query
SearchDescends_Contains(b, r) ==
    RTreeValidChildF(b.child) /\ RTreeCombineRect(r, b.rect) = b.rect

\* the test of RTreeSearchF on a branch of an internal node: in use, and
\* its rectangle overlaps the query
SearchDescends(b, r) == RTreeValidChildF(b.child) /\ RTreeOverlap(r, b.rect)

\* first branch i >= from of internal node n that passes the test, -1 if
\* there is none
RECURSIVE SearchNextBranch(_, _, _, _)
SearchNextBranch(n, r, i, card) ==
    IF i >= card THEN -1
    ELSE IF SearchDescends(n.branch[i], r) THEN i
    ELSE SearchNextBranch(n, r, i + 1, card)

\* a leaf scan that counts every id
SearchLeafHit_AnyRect(b, r) == b.child # 0

\* a search that reports every slot of a leaf whose rectangle overlaps the
\* query, unused slots included
SearchLeafHit_AnySlot(b, r) == RTreeOverlap(r, b.rect)

\* the test of RTreeSearchF on a branch of a leaf: a non-zero id, and its
\* rectangle overlaps the query
SearchLeafHit(b, r) == b.child # 0 /\ RTreeOverlap(r, b.rect)

\* The user-provided callback shcb: -1 is no callback (NULL), 0 a callback
\* that always continues, k > 0 a callback that returns 0 (terminate) on
\* its k-th invocation.  calls is the sequence of ids it was invoked with.
ShcbReturn(shcb, calls) == IF shcb > 0 /\ Len(calls) = shcb THEN 0 ELSE 1

\* a search that ignores what the callback returns
SearchTerminates_Never(shcb, calls) == FALSE

\* "callback wants to terminate search early"
SearchTerminates(shcb, calls) == ShcbReturn(shcb, calls) = 0

\* the scan of a leaf node in RTreeSearchF; hits lists the ids counted
RECURSIVE SearchLeafScan(_, _, _, _, _, _, _, _)
SearchLeafScan(sn, r, i, card, hitCount, hits, calls, shcb) ==
    IF i >= card
    THEN [hitCount |-> hitCount, hits |-> hits, calls |-> calls,
          stopped |-> FALSE]
    ELSE IF SearchLeafHit(sn.branch[i], r)
    THEN IF shcb # -1
         THEN LET calls1 == Append(calls, sn.branch[i].child)
              IN  IF SearchTerminates(shcb, calls1)
                  THEN [hitCount |-> hitCount + 1,
                        hits |-> Append(hits, sn.branch[i].child),
                        calls |-> calls1, stopped |-> TRUE]
                  ELSE SearchLeafScan(sn, r, i + 1, card, hitCount + 1,
                                      Append(hits, sn.branch[i].child),
                                      calls1, shcb)
         ELSE SearchLeafScan(sn, r, i + 1, card, hitCount + 1,
                             Append(hits, sn.branch[i].child), calls, shcb)
    ELSE SearchLeafScan(sn, r, i + 1, card, hitCount, hits, calls, shcb)

\* state of a search after "add root node position to stack"
SearchStart(tr, store) ==
    [s        |-> <<Frame(tr.rootpos, RTreeGetNode(store, tr.rootpos), 0)>>,
     top      |-> 0,
     hitCount |-> 0,
     calls    |-> <<>>,
     hits     |-> <<>>,
     reads    |-> <<tr.rootpos>>,
     maxtop   |-> 0,
     steps    |-> <<[top |-> 0,
                     frames |-> <<[pos |-> tr.rootpos,
                                   level |-> RTreeGetNode(store,
                                                          tr.rootpos).level,
                                   branch_id |-> 0]>>]>>,
     returned |-> FALSE]

\* after the scan sc of the leaf of frame top: the search has returned if
\* the callback stopped it, else it goes back up
SearchLeafDone(x, top, sc) ==
    [x EXCEPT !.hitCount = sc.hitCount,
              !.hits = sc.hits,
              !.calls = sc.calls,
              !.returned = sc.stopped,
              !.s = IF sc.stopped THEN x.s ELSE SubSeq(x.s, 1, top),
              !.top = IF sc.stopped THEN top ELSE top - 1]

\* a search that leaves the cursor of a frame on the branch it follows, the
\* first time it follows it
SearchStep_CursorAtHit(x, r, shcb, tr, store) ==
    LET top == x.top
        f   == x.s[top + 1]
    IN  IF f.sn.level > 0
        THEN LET i == SearchNextBranch(f.sn, r, f.branch_id, tr.nodecard)
             IN  IF i # -1
                 THEN LET pos == f.sn.branch[i].child
                      IN  [x EXCEPT
                             !.s = Append([SubSeq(x.s, 1, top + 1) EXCEPT
                                              ![top + 1].branch_id =
                                                 IF \E q \in 1..Len(x.reads) :
                                                       x.reads[q] = pos
                                                 THEN i + 1 ELSE i],
                                          Frame(pos, RTreeGetNode(store, pos), 0)),
                             !.top = top + 1,
                             !.maxtop = Max(x.maxtop, top + 1),
                             !.reads = Append(x.reads, pos)]
                 ELSE [x EXCEPT !.s = SubSeq(x.s, 1, top), !.top = top - 1]
        ELSE SearchLeafDone(x, top,
                 SearchLeafScan(f.sn, r, 0, tr.leafcard, x.hitCount,
                                x.hits, x.calls, shcb))

\* one iteration of "while (top >= 0)"
SearchStep(x, r, shcb, tr, store) ==
    LET top == x.top
        f   == x.s[top + 1]
    IN  IF f.sn.level > 0
        THEN LET i == SearchNextBranch(f.sn, r, f.branch_id, tr.nodecard)
             IN  IF i # -1
                 THEN LET pos == f.sn.branch[i].child
                      IN  [x EXCEPT
                             !.s = Append([SubSeq(x.s, 1, top + 1) EXCEPT
                                              ![top + 1].branch_id = i + 1],
                                          Frame(pos, RTreeGetNode(store, pos), 0)),
                             !.top = top + 1,
                             !.maxtop = Max(x.maxtop, top + 1),
                             !.reads = Append(x.reads, pos)]
                 ELSE [x EXCEPT !.s = SubSeq(x.s, 1, top), !.top = top - 1]
        ELSE SearchLeafDone(x, top,
                 SearchLeafScan(f.sn, r, 0, tr.leafcard, x.hitCount,
                                x.hits, x.calls, shcb))

\* for the record, the stack after an iteration: top and, for the frames
\* 0..top, the position, the level of the node and the cursor
SearchStepped(x) ==
    [x EXCEPT !.steps =
        Append(x.steps,
               [top    |-> x.top,
                frames |-> [k \in 1..(x.top + 1) |->
                              [pos       |-> x.s[k].pos,
                               level     |-> x.s[k].sn.level,
                               branch_id |-> x.s[k].branch_id]]])]

RECURSIVE SearchLoop(_, _, _, _, _)
SearchLoop(x, r, shcb, tr, store) ==
    IF x.top >= 0 /\ ~x.returned
    THEN SearchLoop(SearchStepped(SearchStep(x, r, shcb, tr, store)),
                    r, shcb, tr, store)
    ELSE x

\* what RTreeSearchF hands back and what it did: x is its locals at the
\* return
SearchResult(x) ==
    [ret |-> x.hitCount, calls |-> x.calls, hits |-> x.hits,
     reads |-> x.reads, maxtop |-> x.maxtop, steps |-> x.steps]

\* Search in an index tree for all data rectangles that overlap the
\* argument rectangle.  ret: the number of qualifying data rects; calls: the
\* ids the callback was invoked with; hits: the ids counted; reads: the
\* positions of the nodes read.
RTreeSearchF(tr, store, r, shcb) ==
    SearchResult(SearchLoop(SearchStart(tr, store), r, shcb, tr, store))

\* "go down to level of insertion": the stack after the descent
RECURSIVE InsertDescend(_, _, _, _, _, _, _)
InsertDescend(s, top, level, r, tr, store, ok) ==
    LET f == s[top + 1]
    IN  IF f.sn.level > level
        THEN LET i   == RTreePickBranch(r, f.sn)
                 pos == f.sn.branch[i].child
                 sn  == RTreeGetNode(store, pos)
             IN  InsertDescend(Append([s EXCEPT ![top + 1].branch_id = i],
                                      Frame(pos, sn, 0)),
                               top + 1, level, r, tr, store,
                               ok /\ sn.level = tr.rootlevel - (top + 1))
        ELSE [s |-> s, top |-> top, levelOk |-> ok]

\* an unwinding that puts the inserted rectangle in the place of the
\* ancestor's branch rectangle
InsertAddedCover_Inserted(rect, r) == r

\* an unwinding that finds nothing to enlarge: nr is the rectangle of the
\* ancestor's branch as it is
InsertAddedCover_Kept(rect, r) == rect

\* "branch was added": the rectangle nr that is compared with the
\* ancestor's branch rectangle and written over it, RTreeCombineRect being
\* read as leaving in nr the union of that rectangle and r
InsertAddedCover(rect, r) == RTreeCombineRect(rect, r)

\* rectangle of the branch of the parent frame that leads to frame top
CoverOfFrame(s, top) ==
    IF top > 0 THEN s[top].sn.branch[s[top].branch_id].rect ELSE RTreeNullRect

\* "write out new node if node was split" and "update node": ab is what
\* RTreeAddBranch returned for the node of frame top, gp the position a
\* new node would get.  posOk: no position was handed out for a new node
\* while a node that can be reached from the root was at it.
AddedAtFrame(x, top, sn, ab, gp) ==
    [x EXCEPT !.s[top + 1].sn = ab.n,
              !.top = top,
              !.result = ab.result,
              !.n2 = IF ab.result = 1 THEN ab.nn ELSE x.n2,
              !.newnode_pos = IF ab.result = 1 THEN gp.pos
                              ELSE x.newnode_pos,
              !.n_nodes = IF ab.result = 1 THEN x.n_nodes + 1
                          ELSE x.n_nodes,
              !.store = RTreePutNode(IF ab.result = 1
                                     THEN RTreeWriteNode(gp.s, ab.nn, gp.pos)
                                     ELSE x.store,
                                     ab.n, x.s[top + 1].pos),
              !.ee = ab.ee,
              !.overflow = ab.overflow,
              !.forced = IF ab.result = 2 THEN Append(x.forced, sn.level)
                         ELSE x.forced,
              !.splits = IF ab.result = 1 THEN Append(x.splits, sn.level)
                         ELSE x.splits,
              !.posOk = x.posOk
                        /\ (ab.result = 1
                            => gp.pos \notin Reachable(x.store, x.s[1].pos)),
              !.assertsOk = x.assertsOk /\ ab.assertsOk]

\* RTreeAddBranch on the node of frame top, followed by "write out new node
\* if node was split" and "update node".  x carries the locals of
\* RTreeInsertRect2F; forced lists the levels that were force-reinserted.
AddBranchAtFrame(x, b, top, sn, tr) ==
    AddedAtFrame(x, top, sn,
                 RTreeAddBranch(b, sn, x.ee, CoverOfFrame(x.s, top),
                                x.overflow, [tr EXCEPT !.n_nodes = x.n_nodes]),
                 RTreeGetNodePos(x.store))

\* "go back up"
RECURSIVE InsertUnwind(_, _, _)
InsertUnwind(x, r, tr) ==
    IF x.top = 0 THEN x
    ELSE
    LET down == x.top
        top  == x.top - 1
        f    == x.s[top + 1]
        i    == f.branch_id
        nr   == IF x.result = 0
                THEN InsertAddedCover(f.sn.branch[i].rect, r)
                ELSE RTreeNodeCover(x.s[down + 1].sn)
    IN  IF x.result = 0 \/ x.result = 2
        THEN IF RTreeCompareRect(nr, f.sn.branch[i].rect) = 0
             THEN InsertUnwind(
                     [x EXCEPT !.top = top,
                               !.s[top + 1].sn.branch[i].rect = nr,
                               !.store = RTreeUpdateRect(x.store, nr, f.pos, i)],
                     r, tr)
             ELSE InsertUnwind([x EXCEPT !.top = top], r, tr)
        ELSE \* result = 1: node was split
             LET sn1 == [f.sn EXCEPT !.branch[i].rect = nr]
                 b   == [rect |-> RTreeNodeCover(x.n2), child |-> x.newnode_pos]
             IN  InsertUnwind(AddBranchAtFrame(x, b, top, sn1, tr), r, tr)

\* what RTreeInsertRect2F hands back: d is the descent, x the locals after
\* the unwinding.  For the record: path, the positions of the nodes of the
\* stack; rect, the rectangle inserted; covers, the rectangle of the branch
\* followed in each ancestor as the descent read it; written, the positions
\* written by this call, in order
InsertResult(tr, d, x) ==
    [result      |-> x.result,
     newnode     |-> x.n2,
     newnode_pos |-> x.newnode_pos,
     tr          |-> [tr EXCEPT !.n_nodes = x.n_nodes],
     store       |-> x.store,
     ee          |-> x.ee,
     overflow    |-> x.overflow,
     forced      |-> x.forced,
     splits      |-> x.splits,
     path        |-> [k \in 1..Len(d.s) |-> d.s[k].pos],
     rect        |-> x.r,
     covers      |-> [k \in 1..(Len(d.s) - 1) |-> CoverOfFrame(d.s, k)],
     written     |-> SubSeq(x.store.wlog, x.wlog0 + 1, Len(x.store.wlog)),
     levelOk     |-> d.levelOk,
     posOk       |-> x.posOk,
     assertsOk   |-> x.assertsOk]

\* "Have reached level for insertion. Add rect, split if necessary", then
\* "go back up"
InsertAtLevel(r, child, level, tr, store, ee, overflow, d) ==
    InsertResult(tr, d,
        InsertUnwind(
            AddBranchAtFrame(
                [s |-> d.s, top |-> d.top, result |-> 0,
                 n2 |-> RTreeInitNode(tr, level), newnode_pos |-> -1,
                 n_nodes |-> tr.n_nodes, store |-> store, ee |-> ee,
                 overflow |-> overflow, forced |-> <<>>, splits |-> <<>>,
                 posOk |-> TRUE, assertsOk |-> TRUE,
                 r |-> r, wlog0 |-> Len(store.wlog)],
                [rect |-> r, child |-> child], d.top,
                d.s[d.top + 1].sn, tr),
            r, tr))

\* Inserts a new data rectangle into the index structure.  Non-recursively
\* descends tree, propagates splits back up.
RTreeInsertRect2F(r, child, level, tr, store, ee, overflow) ==
    InsertAtLevel(r, child, level, tr, store, ee, overflow,
        InsertDescend(<<Frame(tr.rootpos, RTreeGetNode(store, tr.rootpos), 0)>>,
                      0, level, r, tr, store, TRUE))

\* a root that grows with the cover of the old root on both its branches:
\* the second RTreeNodeCover is left out
GrowRoot_OneCover(tr, store, newnode, newnode_pos) ==
    LET oldroot == RTreeGetNode(store, tr.rootpos)
        lvl     == tr.rootlevel + 1
        nr0     == [RTreeInitNode(tr, lvl) EXCEPT !.level = lvl]
        nr1     == AddBranchNoSplit([rect  |-> RTreeNodeCover(oldroot),
                                     child |-> tr.rootpos], nr0)
        nr2     == AddBranchNoSplit([rect  |-> RTreeNodeCover(oldroot),
                                     child |-> newnode_pos], nr1)
        gp      == RTreeGetNodePos(store)
    IN  [tr    |-> [tr EXCEPT !.rootlevel = lvl, !.rootpos = gp.pos,
                              !.n_nodes = tr.n_nodes + 1],
         store |-> RTreeWriteNode(gp.s, nr2, gp.pos),
         posOk |-> gp.pos \notin Reachable(store, tr.rootpos)]

\* a root growth that forgets the node split off the old root
GrowRoot_DropNew(tr, store, newnode, newnode_pos) ==
    LET oldroot == RTreeGetNode(store, tr.rootpos)
        lvl     == tr.rootlevel + 1
        nr0     == [RTreeInitNode(tr, lvl) EXCEPT !.level = lvl]
        nr1     == AddBranchNoSplit([rect  |-> RTreeNodeCover(oldroot),
                                     child |-> tr.rootpos], nr0)
        gp      == RTreeGetNodePos(store)
    IN  [tr    |-> [tr EXCEPT !.rootlevel = lvl, !.rootpos = gp.pos,
                              !.n_nodes = tr.n_nodes + 1],
         store |-> RTreeWriteNode(gp.s, nr1, gp.pos),
         posOk |-> gp.pos \notin Reachable(store, tr.rootpos)]

\* "grow a new root, & tree taller"
GrowRoot(tr, store, newnode, newnode_pos) ==
    LET oldroot == RTreeGetNode(store, tr.rootpos)
        lvl     == tr.rootlevel + 1
        nr0     == [RTreeInitNode(tr, lvl) EXCEPT !.level = lvl]
        nr1     == AddBranchNoSplit([rect  |-> RTreeNodeCover(oldroot),
                                     child |-> tr.rootpos], nr0)
        nr2     == AddBranchNoSplit([rect  |-> RTreeNodeCover(newnode),
                                     child |-> newnode_pos], nr1)
        gp      == RTreeGetNodePos(store)
    IN  [tr    |-> [tr EXCEPT !.rootlevel = lvl, !.rootpos = gp.pos,
                              !.n_nodes = tr.n_nodes + 1],
         store |-> RTreeWriteNode(gp.s, nr2, gp.pos),
         posOk |-> gp.pos \notin Reachable(store, tr.rootpos)]

\* what a node read from the store at pos holds: its level and the
\* rectangles of its branches in use
NodeRead(s, pos) ==
    [level |-> RTreeGetNode(s, pos).level,
     rects |-> {RTreeGetNode(s, pos).branch[i].rect :
                  i \in {j \in DOMAIN RTreeGetNode(s, pos).branch :
                            BranchInUse(RTreeGetNode(s, pos).level,
                                        RTreeGetNode(s, pos).branch[j].child)}}]

\* the state after one pass: i2 is what RTreeInsertRect2F returned, g the
\* tree and the store after the root growth, if any.  grown records the
\* root before and after: where it was and at which level, what the store
\* has at the old root position and at newnode_pos when the pass returns,
\* the node at the root position after the growth, and whether the root position after the pass
\* was unused before (released or past the end, and not in the tree)
InsertPassResult(level, child, y, i2, g) ==
    [tr        |-> g.tr,
     store     |-> g.store,
     list      |-> i2.ee,
     overflow  |-> i2.overflow,
     result    |-> i2.result,
     passes    |-> Append(y.passes,
                          [level |-> level, child |-> child,
                           result |-> i2.result, forced |-> i2.forced,
                           splits |-> i2.splits, path |-> i2.path,
                           wlog |-> i2.store.wlog,
                           rect |-> i2.rect, covers |-> i2.covers,
                           written |-> i2.written,
                           list |-> i2.ee,
                           rootpos |-> g.tr.rootpos,
                           grown |->
                             [wasroot     |-> i2.tr.rootpos,
                              waslevel    |-> i2.tr.rootlevel,
                              rootlevel   |-> g.tr.rootlevel,
                              newnode_pos |-> i2.newnode_pos,
                              oldroot     |-> NodeRead(i2.store, i2.tr.rootpos),
                              sibling     |->
                                 IF i2.result = 1
                                 THEN NodeRead(i2.store, i2.newnode_pos)
                                 ELSE NodeRead(i2.store, i2.tr.rootpos),
                              root        |-> RTreeGetNode(g.store,
                                                           g.tr.rootpos),
                              fresh       |->
                                 /\ \/ g.tr.rootpos \notin DOMAIN i2.store.nodes
                                    \/ \E q \in 1..Len(i2.store.free) :
                                          i2.store.free[q] = g.tr.rootpos
                                 /\ g.tr.rootpos \notin
                                       Reachable(i2.store, i2.tr.rootpos)]]),
     levelOk   |-> y.levelOk /\ i2.levelOk,
     posOk     |-> y.posOk /\ i2.posOk /\ g.posOk,
     assertsOk |-> y.assertsOk /\ i2.assertsOk]

\* "root split": the root grows when the pass split it
InsertPassGrow(level, child, y, i2) ==
    InsertPassResult(level, child, y, i2,
        IF i2.result = 1
        THEN GrowRoot(i2.tr, i2.store, i2.newnode, i2.newnode_pos)
        ELSE [tr |-> i2.tr, store |-> i2.store, posOk |-> TRUE])

\* one insertion pass and the root growth that follows it
InsertPass(r, child, level, y) ==
    InsertPassGrow(level, child, y,
        RTreeInsertRect2F(r, child, level, y.tr, y.store, y.list, y.overflow))

\* a loop that advances the list twice in one iteration
RECURSIVE ReInsertLoop_PopTwo(_)
ReInsertLoop_PopTwo(y) ==
    IF y.list = <<>> THEN y
    ELSE ReInsertLoop_PopTwo(
            InsertPass(Head(y.list).b.rect, Head(y.list).b.child,
                       Head(y.list).level,
                       [y EXCEPT !.list = IF Len(y.list) > 1
                                          THEN Tail(Tail(y.list))
                                          ELSE <<>>]))

\* "while (reInsertList)"
RECURSIVE ReInsertLoop(_)
ReInsertLoop(y) ==
    IF y.list = <<>> THEN y
    ELSE LET e == Head(y.list)
         IN  ReInsertLoop(InsertPass(e.b.rect, e.b.child, e.level,
                                     [y EXCEPT !.list = Tail(y.list)]))

\* what RTreeInsertRectF hands back
InsertRectResult(y) ==
    [ret |-> y.result, tr |-> y.tr, store |-> y.store, list |-> y.list,
     passes |-> y.passes, levelOk |-> y.levelOk, posOk |-> y.posOk,
     assertsOk |-> y.assertsOk]

\* a reinsertion that starts with fresh overflow flags
InsertReInsert_FreshFlags(y) ==
    IF y.result = 2
    THEN ReInsertLoop([y EXCEPT !.overflow =
                          [l \in 0..(MAXLEVEL - 1) |-> y.tr.overflow]])
    ELSE y

\* a reinsertion of the first branch of the list only: "if (reInsertList)"
InsertReInsert_Once(y) ==
    IF y.result = 2
    THEN InsertPass(Head(y.list).b.rect, Head(y.list).b.child,
                    Head(y.list).level, [y EXCEPT !.list = Tail(y.list)])
    ELSE y

\* "if (result == 2)": branches were removed, reinsert them
InsertReInsert(y) == IF y.result = 2 THEN ReInsertLoop(y) ELSE y

\* Insert a data rectangle into an index structure; provides for splitting
\* the root.  passes records, per call of RTreeInsertRect2F, what it did.
RTreeInsertRectF(r, child, level, tr, store) ==
    InsertRectResult(
        InsertReInsert(
            InsertPass(r, child, level,
                [tr |-> tr, store |-> store, list |-> <<>>,
                 overflow |-> [l \in 0..(MAXLEVEL - 1) |-> tr.overflow],
                 result |-> 0, passes |-> <<>>, levelOk |-> TRUE,
                 posOk |-> TRUE, assertsOk |-> TRUE])))

\* a deletion that descends into every branch in use
DeleteDescends_AnyRect(b, r) == RTreeValidChildF(b.child)

\* the test of RTreeDeleteRect2F on a branch of an internal node
DeleteDescends(b, r) == RTreeValidChildF(b.child) /\ RTreeOverlap(r, b.rect)

\* a descent that looks at the branch it stopped at and at no later one
DeleteNextBranch_OneSlot(n, r, i, card) ==
    IF i < card /\ DeleteDescends(n.branch[i], r) THEN i ELSE -1

\* "for (i = s[top].branch_id; i < t->nodecard; i++)": the next branch to
\* go down, -1 if there is none
RECURSIVE DeleteNextBranch(_, _, _, _)
DeleteNextBranch(n, r, i, card) ==
    IF i >= card THEN -1
    ELSE IF DeleteDescends(n.branch[i], r) THEN i
    ELSE DeleteNextBranch(n, r, i + 1, card)

\* a deletion that takes the first item of a leaf for the one looked for
DeleteLeafHit_AnyId(b, child) == b.child # 0

\* the test of RTreeDeleteRect2F on a branch of a leaf: "found item"
DeleteLeafHit(b, child) == b.child # 0 /\ b.child = child

\* first slot of leaf node n that holds the item, -1 if there is none
RECURSIVE LeafMatch(_, _, _, _)
LeafMatch(n, child, i, card) ==
    IF i >= card THEN -1
    ELSE IF DeleteLeafHit(n.branch[i], child) THEN i
    ELSE LeafMatch(n, child, i + 1, card)

\* a deletion that never finds the cover of the child changed
DeleteCoverChanged_Never(nr, rect) == FALSE

\* "rewrite rect": the cover of the child is not the rectangle of its branch
DeleteCoverChanged(nr, rect) == RTreeCompareRect(nr, rect) = 0

\* a deletion that keeps a child one entry short of its minimum fill
DeleteChildKept_OneShort(sn, tr) == sn.count >= MINFILL(sn.level, tr) - 1

\* the child node has enough entries: "just update node cover"
DeleteChildKept(sn, tr) == sn.count >= MINFILL(sn.level, tr)

\* "while (notfound && top >= 0)": go down to level 0, remember path
RECURSIVE DeleteFind(_, _, _, _)
DeleteFind(x, r, child, tr) ==
    IF ~(x.notfound = 1 /\ x.top >= 0) THEN x
    ELSE
    LET top == x.top
        f   == x.s[top + 1]
    IN  IF f.sn.level > 0
        THEN LET i == DeleteNextBranch(f.sn, r, f.branch_id, tr.nodecard)
             IN  IF i # -1
                 THEN LET pos == f.sn.branch[i].child
                      IN  DeleteFind(
                            [x EXCEPT
                               !.s = Append([SubSeq(x.s, 1, top + 1) EXCEPT
                                                ![top + 1].branch_id = i + 1],
                                            Frame(pos, RTreeGetNode(x.store, pos), 0)),
                               !.top = top + 1],
                            r, child, tr)
                 ELSE DeleteFind([x EXCEPT !.s = SubSeq(x.s, 1, top),
                                           !.top = top - 1],
                                 r, child, tr)
        ELSE LET i == LeafMatch(f.sn, child, 0, tr.leafcard)
             IN  IF i # -1
                 THEN LET sn1 == RTreeDisconnectBranch(f.sn, i)
                      IN  [x EXCEPT !.s[top + 1].sn = sn1,
                                    !.store = RTreePutNode(x.store, sn1, f.pos),
                                    !.n_leafs = x.n_leafs - 1,
                                    !.found = f.sn.branch[i],
                                    !.notfound = 0]
                 ELSE DeleteFind([x EXCEPT !.s = SubSeq(x.s, 1, top),
                                           !.top = top - 1],
                                 r, child, tr)

\* "go back up": refresh the cover of a child that is full enough,
\* eliminate a child that is not.  posOk: once its parent is written, no
\* released position can be reached from the root.
RECURSIVE DeleteUnwind(_, _)
DeleteUnwind(x, tr) ==
    IF x.top = 0 THEN x
    ELSE
    LET down == x.top
        top  == x.top - 1
        f    == x.s[top + 1]
        fd   == x.s[down + 1]
        i    == f.branch_id - 1
        lok  == x.levelOk /\ fd.sn.level = f.sn.level - 1
    IN  IF DeleteChildKept(fd.sn, tr)
        THEN LET nr == RTreeNodeCover(fd.sn)
             IN  IF DeleteCoverChanged(nr, f.sn.branch[i].rect)
                 THEN DeleteUnwind(
                        [x EXCEPT !.top = top,
                                  !.s[top + 1].sn.branch[i].rect = nr,
                                  !.store = RTreeUpdateRect(x.store, nr, f.pos, i),
                                  !.levelOk = lok],
                        tr)
                 ELSE DeleteUnwind([x EXCEPT !.top = top, !.levelOk = lok], tr)
        ELSE LET sn1 == RTreeDisconnectBranch(f.sn, i)
                 s1  == RTreeAddNodePos(x.store, f.sn.branch[i].child)
             IN  DeleteUnwind(
                    [x EXCEPT !.top = top,
                              !.s[top + 1].sn = sn1,
                              !.store = RTreePutNode(s1, sn1, f.pos),
                              !.ee = <<fd.sn>> \o x.ee,
                              !.levelOk = lok,
                              !.posOk = x.posOk
                                        /\ f.sn.branch[i].child \notin
                                              Reachable(
                                                RTreePutNode(s1, sn1, f.pos),
                                                x.s[1].pos),
                              !.assertsOk = x.assertsOk
                                            /\ f.sn.branch[i].child = fd.pos],
                    tr)

\* what RTreeDeleteRect2F hands back: x is its locals at the return
DeleteResult(tr, x) ==
    [notfound  |-> x.notfound,
     tr        |-> [tr EXCEPT !.n_leafs = x.n_leafs],
     store     |-> x.store,
     ee        |-> x.ee,
     found     |-> x.found,
     levelOk   |-> x.levelOk,
     posOk     |-> x.posOk,
     assertsOk |-> x.assertsOk]

\* "if (notfound) return notfound", else go back up
DeleteFound(tr, x) ==
    DeleteResult(tr, IF x.notfound = 1 THEN x ELSE DeleteUnwind(x, tr))

\* a deletion that counts the data rectangle out before it is found
RTreeDeleteRect2F_CountFirst(r, child, tr, store) ==
    DeleteFound(tr,
        DeleteFind(
            [s |-> <<Frame(tr.rootpos, RTreeGetNode(store, tr.rootpos), 0)>>,
             top |-> 0, notfound |-> 1, store |-> store,
             n_leafs |-> tr.n_leafs - 1, ee |-> <<>>,
             found |-> RTreeInitBranch(0), levelOk |-> TRUE,
             posOk |-> TRUE, assertsOk |-> TRUE],
            r, child, tr))

\* Delete a rectangle from non-root part of an index structure.
\* notfound: 1 if record not found, 0 if success.
RTreeDeleteRect2F(r, child, tr, store) ==
    DeleteFound(tr,
        DeleteFind(
            [s |-> <<Frame(tr.rootpos, RTreeGetNode(store, tr.rootpos), 0)>>,
             top |-> 0, notfound |-> 1, store |-> store,
             n_leafs |-> tr.n_leafs, ee |-> <<>>,
             found |-> RTreeInitBranch(0), levelOk |-> TRUE,
             posOk |-> TRUE, assertsOk |-> TRUE],
            r, child, tr))

\* the state after the reinsertion of the branch in slot i of node n: ins is
\* what RTreeInsertRectF returned
ReInserted(n, i, z, ins) ==
    [z EXCEPT !.tr = ins.tr, !.store = ins.store,
              !.inserts = Append(z.inserts,
                                 [level |-> n.level,
                                  child |-> n.branch[i].child,
                                  ret |-> ins.ret,
                                  passes |-> ins.passes]),
              !.levelOk = z.levelOk /\ ins.levelOk,
              !.posOk = z.posOk /\ ins.posOk,
              !.assertsOk = z.assertsOk /\ ins.assertsOk]

\* reinsert the branches in use of an eliminated node, slot by slot
RECURSIVE ReInsertNodeBranches(_, _, _)
ReInsertNodeBranches(n, i, z) ==
    IF i >= NSlots(n) THEN z
    ELSE IF BranchInUse(n.level, n.branch[i].child)
    THEN ReInsertNodeBranches(n, i + 1,
            ReInserted(n, i, z,
                RTreeInsertRectF(n.branch[i].rect, n.branch[i].child,
                                 n.level, z.tr, z.store)))
    ELSE ReInsertNodeBranches(n, i + 1, z)

\* a reinsertion that takes the first node of the list and leaves the
\* others: "if (reInsertList)"
DeleteReInsertLoop_HeadOnly(list, z) ==
    IF list = <<>> THEN z
    ELSE ReInsertNodeBranches(Head(list), 0,
                              [z EXCEPT !.tr.n_nodes = z.tr.n_nodes - 1])

\* "reinsert any branches from eliminated nodes"
RECURSIVE DeleteReInsertLoop(_, _)
DeleteReInsertLoop(list, z) ==
    IF list = <<>> THEN z
    ELSE DeleteReInsertLoop(Tail(list),
            ReInsertNodeBranches(Head(list), 0,
                [z EXCEPT !.tr.n_nodes = z.tr.n_nodes - 1]))

\* first slot in use of an internal node
RECURSIVE FirstUsedSlot(_, _)
FirstUsedSlot(n, i) ==
    IF i >= NSlots(n) THEN i
    ELSE IF n.branch[i].child > -1 THEN i
    ELSE FirstUsedSlot(n, i + 1)

\* a root elimination that leaves rootlevel as it was
CollapseRoot_KeepLevel(tr, store) ==
    LET rn == RTreeGetNode(store, tr.rootpos)
    IN  IF rn.count = 1 /\ rn.level > 0
        THEN [tr        |-> [tr EXCEPT
                               !.rootpos = rn.branch[FirstUsedSlot(rn, 0)].child],
              store     |-> RTreeAddNodePos(store, tr.rootpos),
              collapsed |-> TRUE]
        ELSE [tr |-> tr, store |-> store, collapsed |-> FALSE]

\* no check for a redundant root
CollapseRoot_Never(tr, store) ==
    [tr |-> tr, store |-> store, collapsed |-> FALSE]

\* a root elimination that releases the root position after it has moved
\* it to the child
CollapseRoot_ReleaseAfter(tr, store) ==
    LET rn == RTreeGetNode(store, tr.rootpos)
    IN  IF rn.count = 1 /\ rn.level > 0
        THEN [tr        |-> [tr EXCEPT
                               !.rootpos = rn.branch[FirstUsedSlot(rn, 0)].child,
                               !.rootlevel = tr.rootlevel - 1],
              store     |-> RTreeAddNodePos(store,
                               rn.branch[FirstUsedSlot(rn, 0)].child),
              collapsed |-> TRUE]
        ELSE [tr |-> tr, store |-> store, collapsed |-> FALSE]

\* "check for redundant root (not leaf, 1 child) and eliminate"
CollapseRoot(tr, store) ==
    LET rn == RTreeGetNode(store, tr.rootpos)
    IN  IF rn.count = 1 /\ rn.level > 0
        THEN [tr        |-> [tr EXCEPT
                               !.rootpos = rn.branch[FirstUsedSlot(rn, 0)].child,
                               !.rootlevel = tr.rootlevel - 1],
              store     |-> RTreeAddNodePos(store, tr.rootpos),
              collapsed |-> TRUE]
        ELSE [tr |-> tr, store |-> store, collapsed |-> FALSE]

\* what RTreeDeleteRectF hands back on success: d is what RTreeDeleteRect2F
\* returned, z the state after the reinsertions, c after the root check
DeleteRectResult(d, z, c) ==
    [ret        |-> 0,
     tr         |-> c.tr,
     store      |-> c.store,
     eliminated |-> d.ee,
     inserts    |-> z.inserts,
     found      |-> d.found,
     collapsed  |-> c.collapsed,
     levelOk    |-> z.levelOk,
     posOk      |-> z.posOk
                    /\ (c.collapsed
                        => z.tr.rootpos \notin Reachable(c.store, c.tr.rootpos)),
     assertsOk  |-> z.assertsOk]

DeleteCollapse(d, z) == DeleteRectResult(d, z, CollapseRoot(z.tr, z.store))

\* "if (!result)": reinsert, check the root; else the record was not found
DeleteReInsert(d) ==
    IF d.notfound = 0
    THEN DeleteCollapse(d,
            DeleteReInsertLoop(d.ee,
                [tr |-> d.tr, store |-> d.store, inserts |-> <<>>,
                 levelOk |-> d.levelOk, posOk |-> d.posOk,
                 assertsOk |-> d.assertsOk]))
    ELSE [ret |-> 1, tr |-> d.tr, store |-> d.store, eliminated |-> <<>>,
          inserts |-> <<>>, found |-> RTreeInitBranch(0),
          collapsed |-> FALSE, levelOk |-> d.levelOk, posOk |-> d.posOk,
          assertsOk |-> d.assertsOk]

\* Delete a data rectangle from an index structure.
\* ret: 1 if record not found, 0 if success.  Provides for eliminating the
\* root.
RTreeDeleteRectF(r, child, tr, store) ==
    DeleteReInsert(RTreeDeleteRect2F(r, child, tr, store))

----------------------------------------------------------------------------
(* The index and its client.  t is struct RTree, st the node store.  The   *)
(* client calls one public operation at a time (pc = "idle"), the whole    *)
(* operation runs, and the client takes the result (pc = "returned"):      *)
(* res is what the call returned and reported, pre the index before it.    *)
(* live is the client's record of the ids it has inserted and not deleted. *)

\* tree construction: capacities, minimum fills, split strategy; forced
\* reinsertion (overflow) goes with the R*-tree strategy
Configs ==
    { [nodecard |-> 4, leafcard |-> 4, min_node_fill |-> 2,
       min_leaf_fill |-> 2, method |-> m, overflow |-> m] : m \in 0..1 }

\* The workloads of the client (half units): the rectangle of id k is
\* wl[k].  Scenario starts with the six rectangles (0,0)-(1,1),
\* (2,2)-(3,3), (10,10)-(11,11), (0,5)-(1,6), (5,0)-(6,1), (4,4)-(4.5,4.5);
\* Touching has points, duplicates and rectangles that share only a
\* boundary; Strip lies along one axis; Packed has unit squares on a grid,
\* some of them twice.
Scenario ==
    << <<0, 0, 2, 2>>, <<4, 4, 6, 6>>, <<20, 20, 22, 22>>, <<0, 10, 2, 12>>,
       <<10, 0, 12, 2>>, <<8, 8, 9, 9>>, <<1, 1, 3, 3>>, <<5, 5, 7, 7>>,
       <<18, 18, 21, 21>>, <<2, 9, 4, 11>>, <<11, 1, 13, 3>>, <<9, 9, 10, 10>>,
       <<0, 2, 1, 3>>, <<21, 19, 23, 21>>, <<3, 3, 5, 5>>, <<6, 6, 8, 8>> >>

Touching ==
    << <<2, 2, 2, 2>>, <<2, 2, 2, 2>>, <<0, 0, 2, 2>>, <<2, 2, 4, 4>>,
       <<4, 0, 6, 2>>, <<0, 4, 2, 6>>, <<2, 0, 4, 2>>, <<4, 4, 6, 6>>,
       <<0, 2, 2, 4>>, <<6, 6, 6, 6>>, <<4, 2, 6, 4>>, <<2, 4, 4, 6>>,
       <<0, 0, 6, 6>>, <<3, 3, 3, 3>>, <<6, 0, 8, 2>>, <<0, 6, 2, 8>> >>

Strip ==
    << <<0, 0, 1, 1>>, <<8, 0, 9, 1>>, <<2, 0, 3, 1>>, <<10, 0, 11, 1>>,
       <<4, 0, 5, 1>>, <<12, 0, 13, 1>>, <<6, 0, 7, 1>>, <<14, 0, 15, 1>>,
       <<1, 0, 2, 1>>, <<9, 0, 10, 1>>, <<3, 0, 4, 1>>, <<11, 0, 12, 1>>,
       <<5, 0, 6, 1>>, <<13, 0, 14, 1>>, <<7, 0, 8, 1>>, <<15, 0, 16, 1>> >>

Packed ==
    << <<8, 4, 9, 5>>, <<2, 8, 3, 9>>, <<8, 8, 9, 9>>, <<4, 4, 5, 5>>,
       <<6, 0, 7, 1>>, <<8, 0, 9, 1>>, <<2, 4, 3, 5>>, <<12, 0, 13, 1>>,
       <<0, 8, 1, 9>>, <<0, 0, 1, 1>>, <<0, 8, 1, 9>>, <<0, 4, 1, 5>>,
       <<2, 0, 3, 1>>, <<4, 8, 5, 9>>, <<12, 4, 13, 5>>, <<10, 8, 11, 9>> >>

Workloads == {Scenario, Touching, Strip, Packed}

\* the rectangles the client searches and deletes with, besides those of
\* its workload
Queries ==
    { <<0, 0, 6, 6>>, <<0, 0, 23, 23>>, <<3, 0, 3, 1>>, <<7, 7, 8, 8>> }

\* the callbacks the client searches with
Callbacks == -1..2

NewIndex(cfg) ==
    [nodecard |-> cfg.nodecard, leafcard |-> cfg.leafcard,
     min_node_fill |-> cfg.min_node_fill, min_leaf_fill |-> cfg.min_leaf_fill,
     method |-> cfg.method, overflow |-> cfg.overflow,
     rootpos |-> 0, rootlevel |-> 0, n_nodes |-> 1, n_leafs |-> 0]

NewStore(tr) ==
    [nodes |-> [q \in 0..0 |-> [RTreeInitNode(tr, 0) EXCEPT !.level = 0]],
     free  |-> <<>>,
     wlog  |-> <<>>,
     fault |-> -1,
     failed |-> FALSE]

NoCall == [op |-> "none"]

Init ==
    /\ t \in {NewIndex(cfg) : cfg \in Configs}
    /\ wl \in Workloads
    /\ st = NewStore(t)
    /\ nextId = 1
    /\ live = {}
    /\ pc = "idle"
    /\ pre = NoCall
    /\ res = NoCall

\* the index after the insertion and what the client gets back: ins is what
\* RTreeInsertRectF returned
InsertReturn(r, ins) ==
    /\ t' = ins.tr
    /\ st' = ins.store
    /\ res' = [op |-> "Insert", rect |-> r, id |-> nextId,
               ret |-> ins.ret, passes |-> ins.passes,
               list |-> ins.list, levelOk |-> ins.levelOk,
               posOk |-> ins.posOk, assertsOk |-> ins.assertsOk]

\* RTreeInsertRect: the next data rectangle of the workload goes in at
\* level 0 with the next id
Insert ==
    /\ pc = "idle"
    /\ nextId <= MaxId
    /\ InsertReturn(wl[nextId],
                    RTreeInsertRectF(wl[nextId], nextId, 0,
                                     [t EXCEPT !.n_leafs = t.n_leafs + 1], st))
    /\ nextId' = nextId + 1
    /\ live' = live \cup {nextId}
    /\ pc' = "returned"
    /\ pre' = [op |-> "Insert", t |-> t, st |-> st, live |-> live]
    /\ UNCHANGED wl

\* the index after the deletion and what the client gets back: del is what
\* RTreeDeleteRectF returned
DeleteReturn(r, id, del) ==
    /\ t' = del.tr
    /\ st' = del.store
    /\ res' = [op |-> "Delete", rect |-> r, id |-> id,
               ret |-> del.ret, eliminated |-> del.eliminated,
               inserts |-> del.inserts, found |-> del.found,
               collapsed |-> del.collapsed, levelOk |-> del.levelOk,
               posOk |-> del.posOk, assertsOk |-> del.assertsOk]
    /\ live' = IF del.ret = 0 THEN live \ {id} ELSE live

\* RTreeDeleteRect
Delete(r, id) ==
    /\ pc = "idle"
    /\ (nextId - 1) - Cardinality(live) < MaxDel
    /\ DeleteReturn(r, id, RTreeDeleteRectF(r, id, t, st))
    /\ pc' = "returned"
    /\ pre' = [op |-> "Delete", t |-> t, st |-> st, live |-> live]
    /\ UNCHANGED <<wl, nextId>>

\* what the client gets back: sr is what RTreeSearchF returned
SearchReturn(q, shcb, sr) ==
    res' = [op |-> "Search", rect |-> q, shcb |-> shcb,
            ret |-> sr.ret, calls |-> sr.calls, hits |-> sr.hits,
            reads |-> sr.reads, maxtop |-> sr.maxtop, steps |-> sr.steps]

\* RTreeSearch
Search(q, shcb) ==
    /\ pc = "idle"
    /\ SearchReturn(q, shcb, RTreeSearchF(t, st, q, shcb))
    /\ pc' = "returned"
    /\ pre' = [op |-> "Search", t |-> t, st |-> st, live |-> live]
    /\ UNCHANGED <<t, st, wl, nextId, live>>

\* the client takes the result; the next call starts a fresh write log
Return ==
    /\ pc = "returned"
    /\ pc' = "idle"
    /\ pre' = NoCall
    /\ res' = NoCall
    /\ st' = [st EXCEPT !.wlog = <<>>]
    /\ UNCHANGED <<t, wl, nextId, live>>

\* the rectangles a Delete is called with for id: the one it was inserted
\* with, and the query rectangles
DeleteRects(id) == {wl[id]} \cup Queries

Next ==
    \/ Insert
    \/ \E id \in 1..Min(nextId, MaxId) : \E r \in DeleteRects(id) : Delete(r, id)
    \/ \E q \in Queries, shcb \in Callbacks : Search(q, shcb)
    \/ Return

Spec == Init /\ [][Next]_vars

\* FaultsAfter: how many rewrites succeed before the one that fails
FaultsAfter == 0..MaxFault

\* RTreeInsertRect on a store whose rewrite number k + 1 of this call fails
InsertFault(k) ==
    /\ pc = "idle"
    /\ nextId <= MaxId
    /\ InsertReturn(wl[nextId],
                    RTreeInsertRectF(wl[nextId], nextId, 0,
                                     [t EXCEPT !.n_leafs = t.n_leafs + 1],
                                     [st EXCEPT !.fault = k]))
    /\ st'.failed
    /\ nextId' = nextId + 1
    /\ live' = live \cup {nextId}
    /\ pc' = "failed"
    /\ pre' = [op |-> "Insert", t |-> t, st |-> st, live |-> live]
    /\ UNCHANGED wl

\* RTreeDeleteRect on a store whose rewrite number k + 1 of this call fails
DeleteFault(id, k) ==
    /\ pc = "idle"
    /\ (nextId - 1) - Cardinality(live) < MaxDel
    /\ DeleteReturn(wl[id], id,
                    RTreeDeleteRectF(wl[id], id, t, [st EXCEPT !.fault = k]))
    /\ st'.failed
    /\ pc' = "failed"
    /\ pre' = [op |-> "Delete", t |-> t, st |-> st, live |-> live]
    /\ UNCHANGED <<wl, nextId>>

\* the index on a store that can fail once; the call during which it
\* failed returns with pc = "failed", and the client makes no further call
NextFault ==
    \/ Next
    \/ \E k \in FaultsAfter : InsertFault(k)
    \/ \E id \in 1..Min(nextId - 1, MaxId), k \in FaultsAfter :
          DeleteFault(id, k)

SpecFault == Init /\ [][NextFault]_vars

\* the client also asks for the deletion of id 0, which it never inserted:
\* the id that the unused slots of a leaf hold
NextZero ==
    \/ Next
    \/ \E r \in Queries : Delete(r, 0)

SpecZero == Init /\ [][NextZero]_vars

----------------------------------------------------------------------------
(* The split engine on its own: RTreeSplitNode is called with a full node  *)
(* of capacity 4 and an extra branch.  The rectangles of the five branches *)
(* are wl[1..5], chosen at the start; the children are 1..5.               *)

\* how many rectangles of RectPool the branches are drawn from
MaxRect == 5

\* squares that touch, overlap and lie apart, a point inside them, a flat
\* strip, a point apart
RectPool ==
    << <<0, 0, 2, 2>>, <<4, 0, 6, 2>>, <<0, 4, 2, 6>>, <<2, 2, 4, 4>>,
       <<1, 1, 1, 1>>, <<0, 0, 6, 1>>, <<5, 5, 5, 5>> >>

SplitRects == {RectPool[k] : k \in 1..Min(MaxRect, Len(RectPool))}

\* capacity 4 with minimum fill 1 or 2, both strategies
SplitConfigs ==
    { [nodecard |-> 4, leafcard |-> 4, min_node_fill |-> f,
       min_leaf_fill |-> f, method |-> m, overflow |-> m] :
      f \in 1..2, m \in 0..1 }

InitSplit ==
    /\ t \in {NewIndex(cfg) : cfg \in SplitConfigs}
    /\ wl \in [1..(t.nodecard + 1) -> SplitRects]
    /\ st = NewStore(t)
    /\ nextId = 1
    /\ live = {}
    /\ pc = "idle"
    /\ pre = NoCall
    /\ res = NoCall

\* a node of the level with every entry in use
FullNode(level) ==
    [level  |-> level,
     count  |-> MAXKIDS(level, t),
     branch |-> [i \in 0..(MAXKIDS(level, t) - 1) |->
                   [rect |-> wl[i + 1], child |-> i + 1]]]

\* the branch that did not fit
ExtraBranch(level) ==
    [rect  |-> wl[MAXKIDS(level, t) + 1], child |-> MAXKIDS(level, t) + 1]

\* what the caller of RTreeSplitNode has afterwards: sp is what it made
SplitReturn(level, sp) ==
    res' = [op |-> "Split", level |-> level, n |-> sp.n, nn |-> sp.nn,
            p |-> sp.p, BranchBuf |-> sp.BranchBuf, sorted |-> sp.sorted,
            assertsOk |-> sp.assertsOk]

\* RTreeSplitNode(n, b, nn, t) with n a full node of the level
SplitNode(level) ==
    /\ pc = "idle"
    /\ SplitReturn(level,
                   RTreeSplitNode(FullNode(level), ExtraBranch(level),
                                  RTreeInitNode(t, level), t))
    /\ pc' = "returned"
    /\ pre' = [op |-> "Split", t |-> t, st |-> st, live |-> live]
    /\ UNCHANGED <<t, st, wl, nextId, live>>

NextSplit == \E level \in 0..1 : SplitNode(level)

SpecSplit == InitSplit /\ [][NextSplit]_vars

----------------------------------------------------------------------------
(* What the properties speak of: the nodes of the tree as they are stored, *)
(* and the data rectangles the client has put in and not taken out.        *)

\* the slots of node n that hold a branch
UsedSlots(n) ==
    {i \in DOMAIN n.branch : BranchInUse(n.level, n.branch[i].child)}

\* the nodes below and including pos, each with the level the balance of
\* the tree gives it: <<position, level>>
RECURSIVE Subtree(_, _, _)
Subtree(store, pos, lvl) ==
    {<<pos, lvl>>} \cup
    IF lvl > 0 /\ pos \in DOMAIN store.nodes /\ store.nodes[pos].level > 0
    THEN UNION { Subtree(store, store.nodes[pos].branch[i].child, lvl - 1) :
                 i \in UsedSlots(store.nodes[pos]) }
    ELSE {}

TreeNodes(tr, store) == Subtree(store, tr.rootpos, tr.rootlevel)

MinOf(S) == CHOOSE x \in S : \A y \in S : x <= y

MaxOf(S) == CHOOSE x \in S : \A y \in S : y <= x

\* minimum bounding rectangle of a non-empty set of rectangles: per axis
\* the minimum of the minimums and the maximum of the maximums
MBR(rs) ==
    [k \in 1..(2 * NUMDIMS) |->
        IF k <= NUMDIMS THEN MinOf({r[k] : r \in rs})
        ELSE MaxOf({r[k] : r \in rs})]

BranchRects(n) == {n.branch[i].rect : i \in UsedSlots(n)}

\* closed boxes share a point: on every axis the larger minimum is not
\* above the smaller maximum
Intersects(a, b) ==
    \A k \in 1..NUMDIMS :
        Max(a[k], b[k]) <= Min(a[k + NUMDIMS], b[k + NUMDIMS])

\* q covers r
Covers(q, r) ==
    \A k \in 1..NUMDIMS : q[k] <= r[k] /\ r[k + NUMDIMS] <= q[k + NUMDIMS]

SeqSet(s) == {s[k] : k \in 1..Len(s)}

\* brute force: the ids, among those in ids, whose rectangle intersects q
Scan(ids, q) == {id \in ids : Intersects(wl[id], q)}

\* the ids the client has inserted
Inserted == 1..(nextId - 1)

\* a leaf entry with this id can be reached from pos through branches whose
\* rectangles overlap r
RECURSIVE Reaches(_, _, _, _)
Reaches(store, pos, r, id) ==
    LET n == store.nodes[pos]
    IN  IF n.level > 0
        THEN \E i \in UsedSlots(n) :
                /\ Intersects(n.branch[i].rect, r)
                /\ Reaches(store, n.branch[i].child, r, id)
        ELSE \E i \in UsedSlots(n) : n.branch[i].child = id

Called(op) == pc = "returned" /\ res.op = op

\* the slots in use of the leaves of the tree: <<position, slot>>
LeafSlots(tr, store) ==
    UNION { {<<pl[1], i>> : i \in UsedSlots(store.nodes[pl[1]])} :
            pl \in {q \in TreeNodes(tr, store) : q[2] = 0} }

\* the leaf entries of the tree, as branches [rect, child]
LeafEntries(tr, store) ==
    {store.nodes[sl[1]].branch[sl[2]] : sl \in LeafSlots(tr, store)}

\* how many times the tree holds leaf entry e
EntryCount(tr, store, e) ==
    Cardinality({sl \in LeafSlots(tr, store) :
                    store.nodes[sl[1]].branch[sl[2]] = e})

\* the entry the client stored for id
EntryOf(id) == [rect |-> wl[id], child |-> id]

----------------------------------------------------------------------------
(* Properties *)

\* C1 (containment): after any sequence of completed Insert and Delete
\* operations, the rectangle of every branch in use of every internal node
\* is exactly the minimum bounding rectangle of the branch rectangles of
\* the child node the branch refers to.
C1_Containment ==
    \A pl \in TreeNodes(t, st) :
        LET n == st.nodes[pl[1]]
        IN  n.level > 0 =>
              \A i \in UsedSlots(n) :
                 LET c == st.nodes[n.branch[i].child]
                 IN  /\ BranchRects(c) # {}
                     /\ n.branch[i].rect = MBR(BranchRects(c))

\* a deletion that eliminated a node has completed on a tree with internal
\* nodes
C1_Witness ==
    /\ Called("Delete") /\ res.ret = 0
    /\ Len(res.eliminated) > 0
    /\ t.rootlevel >= 1

\* C2 (fill): every node other than the root holds at least the minimum
\* fill and at most the capacity of its type (internal or leaf); count is
\* the number of branches in use.
C2_Fill ==
    \A pl \in TreeNodes(t, st) :
        LET n == st.nodes[pl[1]]
        IN  /\ n.count = Cardinality(UsedSlots(n))
            /\ n.count <= MAXKIDS(n.level, t)
            /\ pl[1] # t.rootpos => n.count >= MINFILL(n.level, t)

\* an insertion that removed entries from an overfull leaf for reinsertion
\* has completed
C2_Witness ==
    /\ Called("Insert")
    /\ \E k \in 1..Len(res.passes) : res.passes[k].forced # <<>>
    /\ t.rootlevel >= 1

\* C3 (balance): the root has level rootlevel, every child of a node of
\* level L > 0 has level L - 1, so all leaves are at the same depth; the
\* level assertions of the insert descent and of the delete unwind never
\* fail.
C3_Balance ==
    /\ \A pl \in TreeNodes(t, st) :
          pl[1] \in DOMAIN st.nodes /\ st.nodes[pl[1]].level = pl[2]
    /\ (Called("Insert") \/ Called("Delete")) => res.levelOk

\* a deletion has unwound a path of three nodes
C3_Witness ==
    /\ Called("Delete") /\ res.ret = 0
    /\ pre.t.rootlevel = 2

\* C4 (overlap correctness): a search that is not stopped by its callback
\* reports exactly the ids of the stored data rectangles that intersect
\* the query as closed boxes, each once, and returns their number.
C4_SearchIsScan ==
    (Called("Search") /\ res.shcb \in {-1, 0}) =>
        LET want == Scan(live, res.rect)
        IN  /\ SeqSet(res.hits) = want
            /\ Len(res.hits) = Cardinality(want)
            /\ res.ret = Cardinality(want)
            /\ res.shcb = 0 => res.calls = res.hits

\* a search of a tree with internal nodes has reported a rectangle that
\* shares only a corner with the query and left stored rectangles out
C4_Witness ==
    /\ Called("Search") /\ res.shcb = 0
    /\ t.rootlevel >= 1
    /\ wl = Scenario /\ res.rect = <<7, 7, 8, 8>>
    /\ 8 \in SeqSet(res.calls)
    /\ SeqSet(res.calls) # live

\* C5 (round trip): after N insertions with distinct ids and no deletion, a
\* search whose query covers all the inserted rectangles returns N and
\* reports each inserted id exactly once.
C5_RoundTrip ==
    (/\ Called("Search") /\ res.shcb = 0
     /\ live = Inserted
     /\ \A id \in Inserted : Covers(res.rect, wl[id]))
    => /\ res.ret = nextId - 1
       /\ Len(res.calls) = nextId - 1
       /\ SeqSet(res.calls) = Inserted

\* the covering search has run on a tree of three levels
C5_Witness ==
    /\ Called("Search") /\ res.shcb = 0
    /\ live = Inserted
    /\ \A id \in Inserted : Covers(res.rect, wl[id])
    /\ t.rootlevel = 2

\* the ids the client has deleted
Deleted == Inserted \ live

\* C6 (deletion): Delete(rect, id) of a pair that was inserted, ids being
\* distinct, returns 0, and no later search whose query covers rect
\* reports id.
C6_DeleteRemoves ==
    /\ (Called("Delete") /\ res.id \in pre.live /\ res.rect = wl[res.id])
       => res.ret = 0 /\ res.id \notin live
    /\ Called("Search")
       => \A id \in Deleted :
             Covers(res.rect, wl[id])
             => id \notin SeqSet(res.hits) \cup SeqSet(res.calls)

\* a search of a tree with internal nodes, its query covering the
\* rectangle of a deleted id, has reported other ids
C6_Witness ==
    /\ Called("Search") /\ res.shcb = 0
    /\ \E id \in Deleted : Covers(res.rect, wl[id])
    /\ res.calls # <<>>
    /\ t.rootlevel >= 1

\* C7 as stated: Delete returns NotFound (1) whenever no leaf entry with
\* exactly the pair (rect, id) is stored, in particular when id is stored
\* with a rectangle different from rect.
C7_Original ==
    (Called("Delete") /\ ~(res.id \in pre.live /\ wl[res.id] = res.rect))
    => res.ret = 1

\* C7 (not found), as the code has it: Delete returns NotFound (1) exactly
\* when no leaf entry with the id can be reached from the root through
\* branches whose rectangles overlap rect, in particular when the id is
\* not stored; an entry that is reached is deleted whatever its rectangle,
\* and 0 is returned.
C7_NotFound ==
    Called("Delete") =>
        /\ res.ret = 1 <=> ~Reaches(pre.st, pre.t.rootpos, res.rect, res.id)
        /\ res.id \notin pre.live => res.ret = 1
        /\ res.ret = 0 => res.found.child = res.id

\* Delete was called for a stored id with a rectangle that is not the
\* stored one and does not lead to it, and returned NotFound
C7_Witness ==
    /\ Called("Delete") /\ res.ret = 1
    /\ res.id \in pre.live /\ res.rect # wl[res.id]
    /\ pre.t.rootlevel >= 1

\* C8 (not found changes nothing): when Delete returns NotFound no node
\* was written, no position allocated or released, and rootpos, rootlevel,
\* n_nodes and n_leafs are what they were before the call.
C8_NotFoundUnchanged ==
    (Called("Delete") /\ res.ret = 1) =>
        /\ st.wlog = <<>>
        /\ st.nodes = pre.st.nodes
        /\ st.free = pre.st.free
        /\ t.rootpos = pre.t.rootpos
        /\ t.rootlevel = pre.t.rootlevel
        /\ t.n_nodes = pre.t.n_nodes
        /\ t.n_leafs = pre.t.n_leafs
        /\ t = pre.t

\* Delete returned NotFound after a descent into the leaves of a tree of
\* three levels
C8_Witness ==
    /\ Called("Delete") /\ res.ret = 1
    /\ pre.t.rootlevel = 2
    /\ Scan(pre.live, res.rect) # {}

\* the six rectangles of the scenario are in, with ids 1 to 6, and the
\* search (0,0)-(3,3) has run to its end
ScenarioSearched ==
    /\ Called("Search") /\ res.shcb \in {-1, 0}
    /\ wl = Scenario /\ nextId = 7
    /\ res.rect = <<0, 0, 6, 6>>

\* C9 as stated: the search reports {1, 2, 6}, and {1, 6} after the
\* deletion of id 2.
C9_Original ==
    ScenarioSearched =>
        /\ live = 1..6 => SeqSet(res.hits) = {1, 2, 6}
        /\ live = (1..6) \ {2} => SeqSet(res.hits) = {1, 6}

\* C9 (scenario), as the code has it: capacity 4, minimum fill 2, the six
\* rectangles inserted with ids 1 to 6: the search (0,0)-(3,3) reports
\* {1, 2} and returns 2; after the deletion of id 2 it reports {1} and
\* returns 1.  Rectangle 6, (4,4)-(4.5,4.5), does not overlap the query.
C9_Scenario ==
    ScenarioSearched =>
        /\ live = 1..6 => SeqSet(res.hits) = {1, 2} /\ res.ret = 2
        /\ live = (1..6) \ {2} => SeqSet(res.hits) = {1} /\ res.ret = 1

\* the search of the scenario has run after the deletion of id 2
C9_Witness == ScenarioSearched /\ live = (1..6) \ {2}

\* C10 (early termination): with a callback, the value returned is the
\* number of callback invocations made, the hit on which the callback asked
\* to stop included; after the callback returns 0 no callback is invoked
\* and no node is read: the last node read is the leaf of the last id
\* reported, and the ids reported are the first ones of the search that
\* is not stopped.
C10_EarlyStop ==
    (Called("Search") /\ res.shcb # -1) =>
        /\ res.ret = Len(res.calls)
        /\ res.shcb > 0 => Len(res.calls) <= res.shcb
        /\ (res.shcb > 0 /\ Len(res.calls) = res.shcb) =>
              LET n == st.nodes[res.reads[Len(res.reads)]]
              IN  /\ n.level = 0
                  /\ \E i \in UsedSlots(n) :
                        n.branch[i].child = res.calls[Len(res.calls)]
                  /\ res.calls =
                        SubSeq(RTreeSearchF(t, st, res.rect, 0).calls,
                               1, res.shcb)

\* a search of a tree of three levels stopped at its callback's request
\* with hits still to come and nodes still unread
C10_Witness ==
    /\ Called("Search") /\ res.shcb > 0
    /\ Len(res.calls) = res.shcb
    /\ Cardinality(Scan(live, res.rect)) > res.shcb
    /\ Cardinality(SeqSet(res.reads)) < Cardinality(TreeNodes(t, st)) - 1
    /\ t.rootlevel = 2

\* C11 (insert return value): RTreeInsertRectF returns 1 if and only if
\* the root was split, so that rootlevel increased, at some point during
\* the call, root growth during the reinsertion of removed branches
\* included; it returns 0 otherwise and never another value.
C11_Original ==
    Called("Insert") =>
        /\ res.ret \in {0, 1}
        /\ res.ret = 1 <=> t.rootlevel > pre.t.rootlevel

\* C12 (findability for Delete): every entry (rect, id) stored, ids being
\* distinct, is in the tree once, and on its path from the root every
\* branch rectangle overlaps rect, whatever was inserted and deleted since;
\* Delete called with the rectangle the entry was inserted with reaches
\* its leaf, takes that entry out and returns 0.
C12_Findable ==
    /\ \A id \in live :
          /\ EntryCount(t, st, EntryOf(id)) = 1
          /\ Reaches(st, t.rootpos, wl[id], id)
    /\ (Called("Delete") /\ res.id \in pre.live /\ res.rect = wl[res.id])
       => res.ret = 0 /\ res.found = EntryOf(res.id)

\* Delete has found an entry that was not the last one inserted in a tree
\* of three levels, where more than one branch of the root overlaps its
\* rectangle
C12_Witness ==
    /\ Called("Delete") /\ res.ret = 0 /\ res.rect = wl[res.id]
    /\ res.id < nextId - 1
    /\ pre.t.rootlevel = 2
    /\ LET rn == pre.st.nodes[pre.t.rootpos]
       IN  Cardinality({i \in UsedSlots(rn) :
                           Intersects(rn.branch[i].rect, res.rect)}) > 1

\* the branches in use of reachable internal nodes that refer to position p
RefsTo(p) ==
    {qi \in UNION { {<<q, i>> : i \in UsedSlots(st.nodes[q])} :
                    q \in {q \in Reachable(st, t.rootpos) :
                              st.nodes[q].level > 0} } :
        st.nodes[qi[1]].branch[qi[2]].child = p}

\* C13 (positions): a position handed out for a new node (the sibling of a
\* split node, a new root) is at that moment not the position of a node
\* that can be reached from the root; a position released by Delete (an
\* eliminated child, the old root) cannot be reached once its parent is
\* written, so before any later allocation; no released position can be
\* reached from the root, none is released twice, and every node that can
\* be reached is referred to by exactly one branch, the root by none.
C13_Positions ==
    /\ (Called("Insert") \/ Called("Delete")) => res.posOk
    /\ Called("Insert")
       => Reachable(pre.st, pre.t.rootpos) \subseteq Reachable(st, t.rootpos)
    /\ Reachable(st, t.rootpos) \subseteq DOMAIN st.nodes
    /\ Reachable(st, t.rootpos) \cap SeqSet(st.free) = {}
    /\ Cardinality(SeqSet(st.free)) = Len(st.free)
    /\ \A p \in Reachable(st, t.rootpos) :
          Cardinality(RefsTo(p)) = IF p = t.rootpos THEN 0 ELSE 1

\* an insertion has split a node and put the new node at a position that
\* an earlier deletion released
C13_Witness ==
    /\ Called("Insert")
    /\ pre.st.free # <<>>
    /\ Len(st.free) < Len(pre.st.free)
    /\ pre.st.free[Len(pre.st.free)] \in Reachable(st, t.rootpos)

\* C14 (storage failure): if the node store fails during Insert or Delete,
\* the operation is aborted, so that the index is as it was before the
\* call, and the failure is reported to the caller: what the call returns
\* is not one of its normal results.
C14_Original ==
    pc = "failed" =>
        /\ res.ret \notin {0, 1}
        /\ t = pre.t
        /\ st.nodes = pre.st.nodes

\* the branches in use of node n from slot i on, in slot order, each with
\* the level of n
RECURSIVE NodeBranches(_, _)
NodeBranches(n, i) ==
    IF i >= NSlots(n) THEN <<>>
    ELSE (IF BranchInUse(n.level, n.branch[i].child)
          THEN <<[level |-> n.level, child |-> n.branch[i].child]>>
          ELSE <<>>) \o NodeBranches(n, i + 1)

\* the branches of the nodes of a list, in list order
RECURSIVE ListBranches(_)
ListBranches(list) ==
    IF list = <<>> THEN <<>>
    ELSE NodeBranches(Head(list), 0) \o ListBranches(Tail(list))

\* the tree has a node of level lvl with a branch that refers to child
BranchAtLevel(tr, store, lvl, child) ==
    \E pl \in TreeNodes(tr, store) :
        /\ pl[2] = lvl
        /\ \E i \in UsedSlots(store.nodes[pl[1]]) :
              store.nodes[pl[1]].branch[i].child = child

\* C15 (Delete loses no entry): after a successful Delete(rect, id) the
\* leaf entries of the tree, counted with multiplicity, are those before
\* the call less one entry, which has that id; every branch of every node
\* eliminated during the unwind, leaf or internal, has been inserted again
\* at the level of the node it came from, and is in a node of that level
\* when Delete returns.
C15_DeleteKeeps ==
    (Called("Delete") /\ res.ret = 0) =>
        /\ res.found.child = res.id
        /\ \A e \in LeafEntries(pre.t, pre.st) \cup LeafEntries(t, st) :
              EntryCount(t, st, e) =
                 EntryCount(pre.t, pre.st, e) - (IF e = res.found THEN 1 ELSE 0)
        /\ [k \in 1..Len(res.inserts) |->
              [level |-> res.inserts[k].level, child |-> res.inserts[k].child]]
           = ListBranches(res.eliminated)
        /\ \A k \in 1..Len(res.inserts) :
              BranchAtLevel(t, st, res.inserts[k].level, res.inserts[k].child)

\* a deletion has eliminated a leaf and then its parent, and reinserted
\* the other children of the parent
C15_Witness ==
    /\ Called("Delete") /\ res.ret = 0
    /\ Len(res.eliminated) > 1
    /\ \E k \in 1..Len(res.inserts) : res.inserts[k].level > 0

\* the list after pass k of an insertion is the list the pass started
\* with, without its head if the pass reinserted it, with the branches
\* removed by the pass before it: FORCECARD for each forced reinsertion,
\* each with the level of the node it was removed from
ListAfterPass(passes, k) ==
    LET before == IF k = 1 THEN <<>> ELSE Tail(passes[k - 1].list)
        added  == Len(passes[k].list) - Len(before)
    IN  /\ added = FORCECARD * Len(passes[k].forced)
        /\ SubSeq(passes[k].list, added + 1, Len(passes[k].list)) = before
        /\ \A j \in 1..added :
              passes[k].list[j].level \in SeqSet(passes[k].forced)

\* C16 (forced reinsertion keeps the entries): when RTreeInsertRectF
\* returns, the list of branches to reinsert is empty and the leaf entries
\* of the tree, counted with multiplicity, are those before the call and
\* the new entry once; every branch removed by a forced reinsertion was put
\* on the list with the level of its node, and each pass after the first
\* inserts the head of the list at that level.
C16_InsertKeeps ==
    Called("Insert") =>
        /\ res.list = <<>>
        /\ res.passes[Len(res.passes)].list = <<>>
        /\ \A e \in LeafEntries(pre.t, pre.st) \cup LeafEntries(t, st)
                     \cup {EntryOf(res.id)} :
              EntryCount(t, st, e) =
                 EntryCount(pre.t, pre.st, e)
                    + (IF e = EntryOf(res.id) THEN 1 ELSE 0)
        /\ res.passes[1].level = 0 /\ res.passes[1].child = res.id
        /\ \A k \in 1..Len(res.passes) : ListAfterPass(res.passes, k)
        /\ \A k \in 2..Len(res.passes) :
              /\ res.passes[k - 1].list # <<>>
              /\ res.passes[k].level = Head(res.passes[k - 1].list).level
              /\ res.passes[k].child = Head(res.passes[k - 1].list).b.child

\* an insertion has removed entries from a leaf, and a leaf was split
\* while they were inserted again
C16_Witness ==
    /\ Called("Insert")
    /\ res.passes[1].forced # <<>>
    /\ \E k \in 2..Len(res.passes) : res.passes[k].splits # <<>>

\* the levels force-reinserted by the passes of one call of
\* RTreeInsertRectF, in order
RECURSIVE ForcedLevels(_)
ForcedLevels(passes) ==
    IF passes = <<>> THEN <<>>
    ELSE Head(passes).forced \o ForcedLevels(Tail(passes))

\* no level is force-reinserted twice by the passes of one call; a pass
\* returns 2 exactly when it force-reinserted; without the overflow option
\* of the tree there is no forced reinsertion
OncePerLevel(passes, tr) ==
    /\ Cardinality(SeqSet(ForcedLevels(passes))) = Len(ForcedLevels(passes))
    /\ \A k \in 1..Len(passes) :
          /\ passes[k].result = 2 <=> passes[k].forced # <<>>
          /\ \A j \in 1..(k - 1) :
                SeqSet(passes[j].forced) \cap SeqSet(passes[k].forced) = {}
    /\ tr.overflow = 0 => ForcedLevels(passes) = <<>>

\* C17 (forced reinsertion once per level): within one call of
\* RTreeInsertRectF, the client's or one made by Delete, a level is
\* force-reinserted at most once: the overflow flags are set at the start
\* of the call and shared by its first pass and its reinsertion passes, so
\* that a later overflow at that level is resolved by a split.
C17_OncePerLevel ==
    /\ Called("Insert") => OncePerLevel(res.passes, pre.t)
    /\ Called("Delete") =>
          \A k \in 1..Len(res.inserts) :
             OncePerLevel(res.inserts[k].passes, pre.t)

\* level 0 was force-reinserted by the first pass of an insertion, a later
\* pass of the call found a leaf full and split it, and the root grew
C17_Witness ==
    /\ Called("Insert")
    /\ res.passes[1].forced = <<0>>
    /\ \E k \in 2..Len(res.passes) :
          /\ 0 \in SeqSet(res.passes[k].splits)
          /\ res.passes[k].result = 1
          /\ res.passes[k].forced = <<>>

\* the passes of one call of RTreeInsertRectF are finitely many: a pass
\* after the first runs on a list that is not empty and takes one branch
\* off it, a pass lengthens the list by FORCECARD for each level it
\* force-reinserts and by nothing else, the list is empty after the last
\* pass, and the levels force-reinserted are at most MAXLEVEL
FinitelyManyPasses(passes) ==
    /\ \A k \in 1..Len(passes) :
          Len(passes[k].list) =
             (IF k = 1 THEN 0 ELSE Len(passes[k - 1].list) - 1)
                + FORCECARD * Len(passes[k].forced)
    /\ \A k \in 2..Len(passes) : passes[k - 1].list # <<>>
    /\ passes[Len(passes)].list = <<>>
    /\ Len(passes) = 1 + FORCECARD * Len(ForcedLevels(passes))
    /\ Len(ForcedLevels(passes)) <= MAXLEVEL

\* C18 (termination of Insert): every call of RTreeInsertRectF, the
\* client's or one made by Delete, returns after at most
\* 1 + FORCECARD * MAXLEVEL passes: each iteration of the reinsertion loop
\* removes one list element, and elements are added only by a forced
\* reinsertion.
C18_InsertTerminates ==
    /\ Called("Insert") => FinitelyManyPasses(res.passes)
    /\ Called("Delete") =>
          \A k \in 1..Len(res.inserts) :
             FinitelyManyPasses(res.inserts[k].passes)

\* a call of RTreeInsertRectF made by Delete has force-reinserted and run
\* the reinsertion loop to its end
C18_Witness ==
    /\ Called("Delete") /\ res.ret = 0
    /\ \E k \in 1..Len(res.inserts) :
          Len(res.inserts[k].passes) = 1 + FORCECARD

\* the passes of a call, in order, that reported a split of the root
GrowingPasses(passes) == SelectSeq(passes, LAMBDA p : p.result = 1)

\* what the root growth after pass p made: the tree is one level taller,
\* the root is at a position that was unused, has the new root level and
\* exactly two branches, one to the old root position with the minimum
\* bounding rectangle of the branches of the node stored there, one to the
\* position of the new sibling with that of the sibling's branches
RootGrown(p) ==
    LET g == p.grown
    IN  /\ g.rootlevel = g.waslevel + 1
        /\ g.fresh
        /\ p.rootpos \notin {g.wasroot, g.newnode_pos}
        /\ g.newnode_pos # g.wasroot
        /\ g.root.level = g.rootlevel
        /\ g.root.count = 2
        /\ Cardinality(UsedSlots(g.root)) = 2
        /\ g.oldroot.level = g.waslevel /\ g.sibling.level = g.waslevel
        /\ \E i, j \in UsedSlots(g.root) :
              /\ i # j
              /\ g.root.branch[i].child = g.wasroot
              /\ g.root.branch[i].rect = MBR(g.oldroot.rects)
              /\ g.root.branch[j].child = g.newnode_pos
              /\ g.root.branch[j].rect = MBR(g.sibling.rects)

\* C19 (root growth): whenever an insertion pass reports that the root was
\* split, rootlevel goes up by exactly 1 and rootpos becomes a newly
\* allocated node of level rootlevel with exactly two branches: one to the
\* old root position with the exact cover of the old root's remaining
\* branches, one to the new sibling's position with the exact cover of the
\* sibling's branches.  For the client's Insert the tree is taller by the
\* number of such passes.
C19_RootGrowth ==
    /\ Called("Insert") =>
          /\ \A k \in 1..Len(res.passes) :
                res.passes[k].result = 1 => RootGrown(res.passes[k])
          /\ t.rootlevel = pre.t.rootlevel + Len(GrowingPasses(res.passes))
    /\ Called("Delete") =>
          \A k \in 1..Len(res.inserts) :
             \A q \in 1..Len(res.inserts[k].passes) :
                res.inserts[k].passes[q].result = 1
                   => RootGrown(res.inserts[k].passes[q])

\* the root of a tree of two levels was split by a pass of the
\* reinsertion loop and the tree has three levels
C19_Witness ==
    /\ Called("Insert")
    /\ pre.t.rootlevel = 1 /\ t.rootlevel = 2
    /\ \E k \in 2..Len(res.passes) : res.passes[k].result = 1

\* the root of the tree as the store has it
RootNode == RTreeGetNode(st, t.rootpos)

UsedBranches(n) == {n.branch[i] : i \in UsedSlots(n)}

\* the branches RTreeSplitNode was called with: those of the full node and
\* the extra one
SplitInput ==
    {[rect |-> wl[k], child |-> k] : k \in 1..(MAXKIDS(res.level, t) + 1)}

\* C21 (split post-conditions, both strategies): RTreeSplitNode on a full
\* node n and an extra branch b puts every one of the capacity + 1 branches
\* in exactly one of n and nn, n.count + nn.count is capacity + 1, both
\* counts are at least the minimum fill of the level, n and nn have the
\* level n had, and no assertion of RTreeMethodZero, RTreeMethodOne or
\* RTreeSplitNode fails.
C21_SplitPost ==
    Called("Split") =>
        /\ UsedBranches(res.n) \cup UsedBranches(res.nn) = SplitInput
        /\ {b.child : b \in UsedBranches(res.n)}
              \cap {b.child : b \in UsedBranches(res.nn)} = {}
        /\ res.n.count = Cardinality(UsedSlots(res.n))
        /\ res.nn.count = Cardinality(UsedSlots(res.nn))
        /\ res.n.count + res.nn.count = MAXKIDS(res.level, t) + 1
        /\ res.n.count >= MINFILL(res.level, t)
        /\ res.nn.count >= MINFILL(res.level, t)
        /\ res.n.level = res.level /\ res.nn.level = res.level
        /\ res.assertsOk

\* an internal node was split by the R*-tree strategy with minimum fill 2
\* and the new node has just the minimum fill
C21_Witness ==
    /\ Called("Split") /\ t.method = 1 /\ res.level = 1
    /\ MINFILL(res.level, t) = 2
    /\ res.nn.count = 2 /\ res.n.count = 3

\* how many of the first n calls of RTreeClassify put a branch in group g
RECURSIVE ClassifiedIn(_, _, _)
ClassifiedIn(order, n, g) ==
    IF n = 0 THEN 0
    ELSE ClassifiedIn(order, n - 1, g) + (IF order[n][2] = g THEN 1 ELSE 0)

\* the calls of RTreeClassify made by RTreePickSeeds and by the
\* assignment loop of RTreeMethodZero
BeforeRest(p) == 2 + Len(p.steps)

\* the quadratic split of p stopped its loop with group g full, that is
\* with total - minfill branches, and branches still unclassified
StoppedEarly(p, g) ==
    /\ BeforeRest(p) < p.total
    /\ ClassifiedIn(p.order, BeforeRest(p), g) = p.total - p.minfill

\* C22 (quadratic split, early stop): the assignment loop runs only while
\* both groups hold fewer than total - minfill branches and stops as soon
\* as one holds total - minfill; the branches unclassified at that point
\* all go to the other group, which ends with exactly minfill branches; no
\* branch is classified twice.
C22_EarlyStop ==
    (Called("Split") /\ t.method = 0) =>
        LET p == res.p
        IN  /\ \A k \in 1..Len(p.steps) :
                  /\ p.steps[k].count[1] < p.total - p.minfill
                  /\ p.steps[k].count[2] < p.total - p.minfill
                  /\ p.steps[k].count[1] =
                        ClassifiedIn(p.order, 1 + k, 0)
                  /\ p.steps[k].count[2] =
                        ClassifiedIn(p.order, 1 + k, 1)
            /\ BeforeRest(p) < p.total =>
                  \E g \in 0..1 : StoppedEarly(p, g)
            /\ \A g \in 0..1 :
                  StoppedEarly(p, g) =>
                     /\ \A k \in (BeforeRest(p) + 1)..Len(p.order) :
                           p.order[k][2] = 1 - g
                     /\ p.count[1 - g] = p.minfill
                     /\ p.count[g] = p.total - p.minfill
            /\ Len(p.order) = p.total
            /\ \A j, k \in 1..Len(p.order) :
                  j # k => p.order[j][1] # p.order[k][1]
            /\ \A k \in 1..Len(p.order) :
                  p.partition[p.order[k][1]] = p.order[k][2]

\* a quadratic split with minimum fill 2 whose loop stopped with three
\* branches in group 0 and one branch unclassified
C22_Witness ==
    /\ Called("Split") /\ t.method = 0 /\ res.p.minfill = 2
    /\ StoppedEarly(res.p, 0)
    /\ Len(res.p.steps) = 2

\* by how much the bounding sphere of cover grows when rect is added
Enlargement(rect, cover) ==
    RTreeRectSphericalVolume(MBR({rect, cover}))
       - RTreeRectSphericalVolume(cover)

\* step k of the assignment loop of the quadratic split: what adding the
\* chosen branch costs group g
StepCost(k, g) ==
    Enlargement(res.BranchBuf[res.p.steps[k].chosen].rect,
                res.p.steps[k].cover[g + 1])

\* C23 (quadratic split, tie-break): in each assignment step the chosen
\* branch goes to the group whose cover it enlarges less, and when the
\* cost is the same for both groups it goes to the group that holds fewer
\* branches.
C23_Original ==
    (Called("Split") /\ t.method = 0) =>
        \A k \in 1..Len(res.p.steps) :
           LET s == res.p.steps[k]
           IN  /\ StepCost(k, 0) < StepCost(k, 1) => s.group = 0
               /\ StepCost(k, 1) < StepCost(k, 0) => s.group = 1
               /\ (StepCost(k, 0) = StepCost(k, 1)
                   /\ s.count[1] # s.count[2])
                  => s.group = (IF s.count[1] < s.count[2] THEN 0 ELSE 1)

\* what the code does: the branch goes to the group it enlarges less, and
\* to group 0 when the cost is the same
C23_TieToGroupZero ==
    (Called("Split") /\ t.method = 0) =>
        \A k \in 1..Len(res.p.steps) :
           res.p.steps[k].group =
              (IF StepCost(k, 1) >= StepCost(k, 0) THEN 0 ELSE 1)

\* sum of the extents of a rectangle over the axes
Margin(r) == RTreeRectMargin(MBR({r}))

RECURSIVE SumOver(_, _)
SumOver(f(_), S) ==
    IF S = {} THEN 0
    ELSE LET x == CHOOSE y \in S : TRUE
         IN  f(x) + SumOver(f, S \ {x})

\* the margins of the two group covers of distribution k of an R*-tree
\* split
DistMargin(k) ==
    Margin(res.p.dists[k].group0) + Margin(res.p.dists[k].group1)

\* the distributions of axis a, of both sort orders
DistsOfAxis(a) == {k \in 1..Len(res.p.dists) : res.p.dists[k].axis = a}

\* the margins of axis a, totalled over all its distributions
MarginSum(a) == SumOver(DistMargin, DistsOfAxis(a))

Axes == 0..(NUMDIMS - 1)

\* C24 (R*-tree split, axis choice): the axis used to classify the
\* branches is the axis whose sum of margins, totalled over all its
\* minimum-fill-respecting distributions of both sort orders, is smallest
\* among all axes.
C24_Original ==
    (Called("Split") /\ t.method = 1) =>
        \A a \in Axes : MarginSum(res.p.axis) <= MarginSum(a)

\* what the code does: smallest_margin starts at 0, so the axis is axis 0
\* unless a distribution has margin 0, and then the last axis that has one
C24_AxisZero ==
    (Called("Split") /\ t.method = 1) =>
        res.p.axis =
           (IF \E k \in 1..Len(res.p.dists) : DistMargin(k) = 0
            THEN MaxOf({res.p.dists[k].axis :
                          k \in {j \in 1..Len(res.p.dists) :
                                    DistMargin(j) = 0}})
            ELSE 0)

\* overlap of two rectangles: the volume of their intersection, 0 when an
\* axis separates them
OverlapVolume(a, b) ==
    IF \E k \in 1..NUMDIMS :
          Max(a[k], b[k]) > Min(a[k + NUMDIMS], b[k + NUMDIMS])
    THEN 0
    ELSE RTreeRectVolume([k \in 1..(2 * NUMDIMS) |->
                            IF k <= NUMDIMS THEN Max(a[k], b[k])
                            ELSE Min(a[k], b[k])])

DistOverlap(k) == OverlapVolume(res.p.dists[k].group0, res.p.dists[k].group1)

DistVolume(k) ==
    RTreeRectVolume(res.p.dists[k].group0)
       + RTreeRectVolume(res.p.dists[k].group1)

\* the distribution the R*-tree split used: of the axis and the sort order
\* it classified along, with the cut it classified at
UsedDists ==
    {k \in DistsOfAxis(res.p.axis) :
        /\ res.p.dists[k].side = res.p.side
        /\ res.p.dists[k].cut + 1 = res.p.cut}

\* C25 (R*-tree split, cut choice): along the chosen axis the cut used
\* minimises the overlap of the two group covers over all
\* minimum-fill-respecting distributions, and among the distributions of
\* that minimal overlap it has the smallest sum of the two cover volumes.
C25_Original ==
    (Called("Split") /\ t.method = 1) =>
        \E u \in UsedDists :
           \A k \in DistsOfAxis(res.p.axis) :
              /\ DistOverlap(u) <= DistOverlap(k)
              /\ DistOverlap(u) = DistOverlap(k)
                    => DistVolume(u) <= DistVolume(k)

\* what the code does: the cut used is the last distribution of the axis,
\* in the order they are looked at, whose overlap is minimal
C25_LastMinimalOverlap ==
    (Called("Split") /\ t.method = 1) =>
        \E u \in UsedDists :
           \A k \in DistsOfAxis(res.p.axis) :
              /\ DistOverlap(u) <= DistOverlap(k)
              /\ DistOverlap(u) = DistOverlap(k) => k <= u

\* the stack of a search at one moment: top is within -1..rootlevel, the
\* frames are those of index 0..top and the frame of index k holds a node
\* of level rootlevel - k
StackInBounds(sn, tr) ==
    /\ sn.top >= -1 /\ sn.top <= tr.rootlevel
    /\ Len(sn.frames) = sn.top + 1
    /\ \A k \in 0..sn.top : sn.frames[k + 1].level = tr.rootlevel - k

\* from one moment of a search to the next: top moves by at most one, the
\* frames that stay are at the same nodes and their cursors do not go back
CursorsAdvance(a, b) ==
    /\ b.top \in {a.top - 1, a.top, a.top + 1}
    /\ \A k \in 1..Min(Len(a.frames), Len(b.frames)) :
          /\ b.frames[k].pos = a.frames[k].pos
          /\ b.frames[k].branch_id >= a.frames[k].branch_id

\* C26 (search stack bound): at every step of RTreeSearchF top is within
\* -1..rootlevel, the frame of index k holds a node of level rootlevel - k,
\* the cursor of a frame only increases, and no node is pushed twice in
\* one search; so a stack of rootlevel + 1 frames is never overrun.
C26_SearchStack ==
    Called("Search") =>
        /\ \A k \in 1..Len(res.steps) : StackInBounds(res.steps[k], t)
        /\ \A k \in 1..(Len(res.steps) - 1) :
              CursorsAdvance(res.steps[k], res.steps[k + 1])
        /\ \A j, k \in 1..Len(res.reads) :
              j # k => res.reads[j] # res.reads[k]
        /\ res.maxtop <= t.rootlevel

\* a search of a tree of three levels came back up to the root from a leaf
\* and went down again to another leaf
C26_Witness ==
    /\ Called("Search") /\ t.rootlevel = 2
    /\ \E i, j, k \in 1..Len(res.steps) :
          /\ i < j /\ j < k
          /\ res.steps[i].top = 2 /\ res.steps[j].top = 0
          /\ res.steps[k].top = 2

\* the passes of an insertion in which the branch was simply added: no node
\* was split and no branch removed
SimplyAdded(p) == p.forced = <<>> /\ p.splits = <<>>

\* the ancestors on the path of a pass: the frames above the target
Ancestors(p) == 1..(Len(p.path) - 1)

\* whether a position is among those a pass wrote
WrittenIn(p, pos) == \E q \in 1..Len(p.written) : p.written[q] = pos

\* r lies inside s, boundaries included
RectInside(r, s) ==
    \A k \in 1..NUMDIMS : s[k] <= r[k] /\ r[k + NUMDIMS] <= s[k + NUMDIMS]

\* C27 (insert writes an ancestor only when needed): in the unwinding of a
\* pass in which the branch was simply added, an ancestor is rewritten
\* exactly when the union of its branch rectangle with the inserted
\* rectangle differs from the branch rectangle; when the inserted
\* rectangle lies inside every ancestor branch rectangle on the path, the
\* target node is the only node written.
C27_AncestorWrites ==
    Called("Insert") =>
        \A n \in 1..Len(res.passes) :
            SimplyAdded(res.passes[n]) =>
                /\ \A k \in Ancestors(res.passes[n]) :
                      WrittenIn(res.passes[n], res.passes[n].path[k])
                         <=> RTreeCombineRect(res.passes[n].covers[k],
                                              res.passes[n].rect)
                                # res.passes[n].covers[k]
                /\ (\A k \in Ancestors(res.passes[n]) :
                       RectInside(res.passes[n].rect,
                                   res.passes[n].covers[k]))
                   => res.passes[n].written =
                         <<res.passes[n].path[Len(res.passes[n].path)]>>

\* a branch was simply added under two ancestors, of which the parent was
\* rewritten and the root was not
C27_Witness ==
    /\ Called("Insert")
    /\ \E n \in 1..Len(res.passes) :
          /\ SimplyAdded(res.passes[n])
          /\ Len(res.passes[n].path) = 3
          /\ WrittenIn(res.passes[n], res.passes[n].path[2])
          /\ ~WrittenIn(res.passes[n], res.passes[n].path[1])

\* the branches in use of the internal nodes of a tree: the position of
\* the node, the slot, the child and the rectangle
InternalBranches(tr, store) ==
    {[pos   |-> pos, slot |-> i,
      child |-> RTreeGetNode(store, pos).branch[i].child,
      rect  |-> RTreeGetNode(store, pos).branch[i].rect] :
        <<pos, i>> \in
          {pi \in Reachable(store, tr.rootpos) \X (0..(tr.nodecard - 1)) :
              /\ RTreeGetNode(store, pi[1]).level > 0
              /\ BranchInUse(RTreeGetNode(store, pi[1]).level,
                             RTreeGetNode(store, pi[1]).branch[pi[2]].child)}}

\* the pairs of a branch before the call and the same branch after it: same
\* node, same slot, same child
KeptBranches ==
    {ba \in InternalBranches(pre.t, pre.st) \X InternalBranches(t, st) :
        /\ ba[1].pos = ba[2].pos
        /\ ba[1].slot = ba[2].slot
        /\ ba[1].child = ba[2].child}

\* an insertion of one pass in which the branch was simply added
SimpleInsert ==
    /\ Called("Insert")
    /\ Len(res.passes) = 1
    /\ SimplyAdded(res.passes[1])

\* a deletion that found its entry and eliminated no node; no position is
\* released or handed out, so a position names the same node before and
\* after
PlainDelete ==
    /\ Called("Delete")
    /\ res.ret = 0
    /\ res.eliminated = <<>>
    /\ ~res.collapsed

\* C28 as stated (ancestor rectangles never shrink): for every internal
\* branch that exists before and after an Insert or Delete call and still
\* points to the same child node, its rectangle after the call contains its
\* rectangle before the call.  Read here on the calls in which no position
\* changes hands: all insertions and the plain deletions.
C28_Original ==
    (Called("Insert") \/ PlainDelete) =>
        \A ba \in KeptBranches : RectInside(ba[1].rect, ba[2].rect)

\* C28 (amended): an insertion that simply adds its branch never shrinks
\* the rectangle of a branch that stays, and a deletion that eliminates no
\* node never enlarges one: it recomputes the cover of the child, which is
\* inside the rectangle it replaces.
C28_GrowOnSimpleAdd ==
    /\ SimpleInsert =>
          \A ba \in KeptBranches : RectInside(ba[1].rect, ba[2].rect)
    /\ PlainDelete =>
          \A ba \in KeptBranches : RectInside(ba[2].rect, ba[1].rect)

\* a simple insertion enlarged the rectangle of a branch that stayed
C28_Witness ==
    /\ SimpleInsert
    /\ \E ba \in KeptBranches :
          /\ RectInside(ba[1].rect, ba[2].rect)
          /\ ba[1].rect # ba[2].rect

\* C29 as stated (node counter consistency): after any sequence of
\* completed Insert and Delete calls, n_nodes equals the number of nodes
\* that can be reached from the root.
C29_Original ==
    pc \in {"idle", "returned"} =>
        t.n_nodes = Cardinality(Reachable(st, t.rootpos))

\* what holds of the counter: it never counts fewer nodes than the tree
\* has, and it counts them exactly after every call that did not drop a
\* redundant root, provided it did before the call
C29_CountsUntilCollapse ==
    /\ pc \in {"idle", "returned"} =>
          t.n_nodes >= Cardinality(Reachable(st, t.rootpos))
    /\ (/\ pc = "returned"
        /\ pre.t.n_nodes = Cardinality(Reachable(pre.st, pre.t.rootpos))
        /\ ~(res.op = "Delete" /\ res.collapsed))
       => t.n_nodes = Cardinality(Reachable(st, t.rootpos))

\* the leaves of a tree that have an unused slot (id 0) whose rectangle
\* overlaps r
LeavesWithFreeSlot(tr, store, r) ==
    {pos \in Reachable(store, tr.rootpos) :
        /\ RTreeGetNode(store, pos).level = 0
        /\ \E i \in 0..(tr.leafcard - 1) :
              /\ RTreeGetNode(store, pos).branch[i].child = 0
              /\ RTreeOverlap(r, RTreeGetNode(store, pos).branch[i].rect)}

\* C30 (leaf id 0 means "empty slot"): a branch of a leaf whose id is 0 is
\* never reported by Search (neither counted nor handed to the callback),
\* never matched by Delete (a deletion of id 0 returns 1 and leaves the
\* index as it was), and never reinserted after the elimination of a leaf.
C30_ZeroIsEmpty ==
    /\ Called("Search") =>
          /\ \A k \in 1..Len(res.hits) : res.hits[k] # 0
          /\ \A k \in 1..Len(res.calls) : res.calls[k] # 0
    /\ Called("Delete") =>
          /\ res.id = 0 => /\ res.ret = 1
                           /\ t = pre.t
                           /\ st.nodes = pre.st.nodes
                           /\ st.wlog = <<>>
          /\ res.ret = 0 => res.found.child # 0
          /\ \A k \in 1..Len(res.inserts) :
                res.inserts[k].level = 0 => res.inserts[k].child # 0

\* the deletion of id 0 was asked for with a rectangle that overlaps the
\* unused slot of a leaf below the root, and the leaf was reached
C30_Witness ==
    /\ Called("Delete")
    /\ res.id = 0
    /\ pre.t.rootlevel > 0
    /\ LeavesWithFreeSlot(pre.t, pre.st, res.rect) # {}

====
